---- MODULE Spec2Model ----
(***************************************************************************)
(* Verification model of the power / safety / coordinator control core of  *)
(* the holographic watch repository.                                       *)
(*                                                                         *)
(* Units.  The source computes with floats; every quantity the modelled    *)
(* code compares is a short decimal, so the model uses scaled integers:    *)
(*   voltage   in decivolts          (3.3 V  -> 33)                        *)
(*   current   in milliamperes       (0.5 A  -> 500)                       *)
(*   power     in decivolt*milliamp  (1 W    -> 10000)                     *)
(*   safety condition values in their own unit (degrees C, percent).       *)
(* No comparison made by the modelled code is within float rounding of a   *)
(* tie for the values used here, so the integer comparison agrees with the *)
(* float one.                                                              *)
(***************************************************************************)
EXTENDS Integers, Sequences, FiniteSets, TLC

VARIABLES
    pms,        \* the PowerManagementSystem object with its four power sources
    last_call,  \* the most recent call of a public operation and its return value
    sm,         \* the SafetyManager object
    mc,         \* the MainController object
    trace,      \* condition values read by each Safety Monitor tick, oldest first
    hsi,        \* the HolographicSystemInterface object with its projector
    po,         \* the PowerOptimizer object attached to the power system
    mon,        \* the StatusMonitor object
    threads,    \* the position of the caller's and of the monitoring thread
    bus,        \* the SPI and the I2C transport
    loops       \* the _safety_monitor_loop tasks of the event loop

vars == <<pms, last_call, sm, mc, trace, hsi, po, mon, threads, bus, loops>>

(***************************************************************************)
(* Bounds of the model.                                                    *)
(***************************************************************************)
MaxHistory == 1
MaxTicks == 5
MaxMainTicks == 2
MaxHandlers == 2
MaxHandlerTicks == 2
MaxLoops == 2

Min(a, b) == IF a <= b THEN a ELSE b

(***************************************************************************)
(* Power management: src/src/core/power_management.py                      *)
(***************************************************************************)
PowerState == {"standby", "low_power", "active", "burst", "charging"}

power_profiles ==
    [s \in PowerState |->
        CASE s = "standby"   -> [voltage |-> 33, current |-> 10,   max_power |-> 330,   min_power |-> 100]
          [] s = "low_power" -> [voltage |-> 33, current |-> 100,  max_power |-> 3300,  min_power |-> 1000]
          [] s = "active"    -> [voltage |-> 33, current |-> 500,  max_power |-> 16500, min_power |-> 5000]
          [] s = "burst"     -> [voltage |-> 37, current |-> 1000, max_power |-> 37000, min_power |-> 16500]
          [] s = "charging"  -> [voltage |-> 50, current |-> 1000, max_power |-> 50000, min_power |-> 37000]]

valid_transitions ==
    [s \in PowerState |->
        CASE s = "standby"   -> {"active", "low_power"}
          [] s = "low_power" -> {"standby", "active"}
          [] s = "active"    -> {"standby", "low_power", "burst"}
          [] s = "burst"     -> {"active", "standby"}
          [] s = "charging"  -> {"standby", "low_power"}]

\* LithiumSulfurBattery limits applied by set_output
BatteryMaxVoltage == 37
BatteryMaxCurrent == 1000
\* Supercapacitor.capacity in farads
SupercapCapacity == 100

\* LithiumSulfurBattery.get_available_power / get_current_power
BatteryAvailablePower(p) == p.bat_voltage * p.bat_current

\* Supercapacitor.get_available_power: 0.5 * C * V^2 watts when V > 0.
\* With V in decivolts this is 0.5 * C * V^2 / 100 W = 50 * C * V^2 model units.
SupercapAvailablePower(p) ==
    IF p.sc_voltage > 0 THEN 50 * SupercapCapacity * p.sc_voltage * p.sc_voltage ELSE 0

\* Supercapacitor.get_current_power
SupercapCurrentPower(p) == IF p.in_burst_mode THEN SupercapAvailablePower(p) ELSE 0

\* ThermalGenerator.get_current_power: 0.1 * efficiency(0.05) W
ThermalCurrentPower == 50
\* MotionGenerator.get_current_power: 0.05 * efficiency(0.1) W
MotionCurrentPower == 50

\* PowerManagementSystem._validate_state_transition
validate_state_transition(p, new_state) ==
    new_state \in valid_transitions[p.current_state]

\* PowerManagementSystem._check_power_availability
TotalAvailablePower(p) ==
    BatteryAvailablePower(p) + SupercapAvailablePower(p)
        + ThermalCurrentPower + MotionCurrentPower

check_power_availability(p, required_power) ==
    TotalAvailablePower(p) >= required_power

RECURSIVE Pow(_, _)
Pow(b, n) == IF n = 0 THEN 1 ELSE b * Pow(b, n - 1)

\* power_profiles[BURST].min_power of the object p as an exact fraction of
\* model units: 1.65 W multiplied by 1.2 once per recorded scaling,
\* 16500 * (6/5)^k = 132 * 5^3 * 6^k / 5^k
burst_min_power(p) ==
    LET k == p.burst_min_scalings
    IN  IF k <= 3
        THEN [num |-> 132 * Pow(5, 3 - k) * Pow(6, k), den |-> 1]
        ELSE [num |-> 132 * Pow(6, k), den |-> Pow(5, k - 3)]

\* power_profiles[ACTIVE].max_power of the object p as an exact fraction:
\* 1.65 W multiplied by 0.9 once per recorded scaling,
\* 16500 * (9/10)^j = 165 * 10^2 * 9^j / 10^j
active_max_power(p) ==
    LET j == p.active_max_scalings
    IN  IF j <= 2
        THEN [num |-> 165 * Pow(10, 2 - j) * Pow(9, j), den |-> 1]
        ELSE [num |-> 165 * Pow(9, j), den |-> Pow(10, j - 2)]

\* self.power_profiles[s] of the object p, every power an exact fraction
profile_of(p, s) ==
    [min_power |-> IF s = "burst" THEN burst_min_power(p)
                   ELSE [num |-> power_profiles[s].min_power, den |-> 1],
     max_power |-> IF s = "active" THEN active_max_power(p)
                   ELSE [num |-> power_profiles[s].max_power, den |-> 1]]

\* required_power = self.power_profiles[requested_state].min_power, rounded
\* up to a whole model unit: the available power it is compared with is a
\* whole number of model units
required_power(p, requested_state) ==
    LET m == profile_of(p, requested_state).min_power
    IN  (m.num + m.den - 1) \div m.den

\* LithiumSulfurBattery.set_output followed by the burst-mode toggle
apply_power_profile_KeepsBurst(p, s) ==
    [p EXCEPT !.bat_voltage = Min(power_profiles[s].voltage, BatteryMaxVoltage),
              !.bat_current = Min(power_profiles[s].current, BatteryMaxCurrent),
              !.in_burst_mode = (p.in_burst_mode \/ s = "burst"),
              !.profile_applied = TRUE]

apply_power_profile(p, s) ==
    [p EXCEPT !.bat_voltage = Min(power_profiles[s].voltage, BatteryMaxVoltage),
              !.bat_current = Min(power_profiles[s].current, BatteryMaxCurrent),
              !.in_burst_mode = (s = "burst"),
              !.profile_applied = TRUE]

\* PowerManagementSystem.request_power_state: the object after the call and
\* the returned bool
request_power_state_AssignsFirst(p, requested_state) ==
    IF ~validate_state_transition(p, requested_state)
    THEN [p |-> p, ok |-> FALSE]
    ELSE IF ~check_power_availability(p, required_power(p, requested_state))
    THEN [p |-> [p EXCEPT !.current_state = requested_state], ok |-> FALSE]
    ELSE [p |-> apply_power_profile([p EXCEPT !.current_state = requested_state],
                                    requested_state),
          ok |-> TRUE]

request_power_state_SkipsPowerCheck(p, requested_state) ==
    IF ~validate_state_transition(p, requested_state)
    THEN [p |-> p, ok |-> FALSE]
    ELSE [p |-> apply_power_profile([p EXCEPT !.current_state = requested_state],
                                    requested_state),
          ok |-> TRUE]

request_power_state(p, requested_state) ==
    IF ~validate_state_transition(p, requested_state)
    THEN [p |-> p, ok |-> FALSE]
    ELSE IF ~check_power_availability(p, required_power(p, requested_state))
    THEN [p |-> p, ok |-> FALSE]
    ELSE [p |-> apply_power_profile([p EXCEPT !.current_state = requested_state],
                                    requested_state),
          ok |-> TRUE]

\* PowerManagementSystem._activate_thermal_management
activate_thermal_management(p) == request_power_state(p, "low_power").p

\* PowerManagementSystem.optimize_power_consumption
optimize_power_consumption(p) ==
    LET p1 == IF p.battery_level < 20 THEN request_power_state(p, "low_power").p ELSE p
    IN  IF p1.temperature > 40 THEN activate_thermal_management(p1) ELSE p1

\* PowerManagementSystem.charge_supercapacitor: Supercapacitor.charge is a
\* stub (`pass`), so the call leaves the supercapacitor as it was.
charge_supercapacitor(p) == p

\* PowerManagementSystem.monitor_power_consumption
PowerSnapshot(p) ==
    [state |-> p.current_state,
     battery_level |-> p.battery_level,
     temperature |-> p.temperature,
     primary_power |-> BatteryAvailablePower(p),
     supercap_power |-> SupercapCurrentPower(p),
     thermal_power |-> ThermalCurrentPower,
     motion_power |-> MotionCurrentPower]

monitor_power_consumption(p) ==
    [p EXCEPT !.power_history = Append(p.power_history, PowerSnapshot(p))]

\* Telemetry values the battery_level and temperature attributes are given
BatteryLevels == {10, 50, 100}
Temperatures == {25, 45}

\* PowerManagementSystem.__init__ with its four sources
InitPMS ==
    [current_state |-> "standby",
     battery_level |-> 100,
     temperature |-> 25,
     bat_voltage |-> 37,
     bat_current |-> 300,
     sc_voltage |-> 0,
     in_burst_mode |-> FALSE,
     profile_applied |-> FALSE,
     power_history |-> <<>>,
     burst_min_scalings |-> 0,
     active_max_scalings |-> 0]

NoCall == [op |-> "none", target |-> "none", from |-> "standby", result |-> TRUE]

RequestPowerState(target) ==
    /\ \E r \in {request_power_state(pms, target)} :
          /\ pms' = r.p
          /\ last_call' = [op |-> "request_power_state", target |-> target,
                           from |-> pms.current_state, result |-> r.ok]

OptimizePowerConsumption ==
    /\ pms' = optimize_power_consumption(pms)
    /\ last_call' = [op |-> "optimize_power_consumption", target |-> "none",
                     from |-> pms.current_state, result |-> TRUE]

ChargeSupercapacitor ==
    /\ pms' = (IF pms.battery_level > 50 THEN charge_supercapacitor(pms) ELSE pms)
    /\ last_call' = [op |-> "charge_supercapacitor", target |-> "none",
                     from |-> pms.current_state, result |-> TRUE]

MonitorPowerConsumption ==
    /\ Len(pms.power_history) < MaxHistory
    /\ pms' = monitor_power_consumption(pms)
    /\ last_call' = [op |-> "monitor_power_consumption", target |-> "none",
                     from |-> pms.current_state, result |-> TRUE]

\* battery_level and temperature are plain attributes written from outside
\* the class (the tests patch them)
SetTelemetry(level, temp) ==
    /\ pms' = [pms EXCEPT !.battery_level = level, !.temperature = temp]
    /\ last_call' = [op |-> "set_telemetry", target |-> "none",
                     from |-> pms.current_state, result |-> TRUE]

(***************************************************************************)
(* Power optimizer: src/optimization/power_optimizer.py                    *)
(* A usage pattern carries its duration in seconds and its power           *)
(* consumption in deciwatts; its timestamp is read by no decision.         *)
(***************************************************************************)
MaxUsage == 2
MaxOptimizations == 5

\* the sample patterns of the module's main()
UsagePatterns ==
    {[power_state |-> "active",  duration |-> 300, power_consumption |-> 15],
     [power_state |-> "burst",   duration |-> 200, power_consumption |-> 25],
     [power_state |-> "standby", duration |-> 400, power_consumption |-> 5]}

\* len(self.usage_history) above which record_usage drops the oldest entries
UsageHistoryLimit == 1000

\* PowerOptimizer.__init__
InitPO == [usage_history |-> <<>>]

\* PowerOptimizer.record_usage
record_usage(o, pattern) ==
    LET h == Append(o.usage_history, pattern)
    IN  [o EXCEPT !.usage_history =
            IF Len(h) > UsageHistoryLimit
            THEN SubSeq(h, Len(h) - UsageHistoryLimit + 1, Len(h))
            ELSE h]

RECURSIVE SumOver(_, _, _)
\* sum of weight(pattern) over the patterns of h, weight given as a function
SumOver(h, i, weight) ==
    IF i > Len(h) THEN 0 ELSE weight[h[i]] + SumOver(h, i + 1, weight)

\* PowerOptimizer._analyze_state_distribution()[BURST] > 0.3
BurstShareExcessive(o) ==
    LET h == o.usage_history
        bursts == SumOver(h, 1, [u \in UsagePatterns |->
                                    IF u.power_state = "burst" THEN 1 ELSE 0])
    IN  Len(h) > 0 /\ 10 * bursts > 3 * Len(h)

\* PowerOptimizer._calculate_power_efficiency() > 0.8
calculate_power_efficiency_high(o) ==
    LET h == o.usage_history
        total_power == SumOver(h, 1, [u \in UsagePatterns |->
                                        u.power_consumption * u.duration])
        total_time == SumOver(h, 1, [u \in UsagePatterns |-> u.duration])
    IN  Len(h) > 0 /\ total_time > 0 /\ total_power > 8 * total_time

\* PowerOptimizer._calculate_average_duration().get(STANDBY, 0) < 60
StandbyDurationShort(o) ==
    LET h == o.usage_history
        count == SumOver(h, 1, [u \in UsagePatterns |->
                                    IF u.power_state = "standby" THEN 1 ELSE 0])
        total == SumOver(h, 1, [u \in UsagePatterns |->
                                    IF u.power_state = "standby" THEN u.duration ELSE 0])
    IN  count = 0 \/ total < 60 * count

\* PowerOptimizer.suggest_optimizations: the suggestion types, in list order
suggest_optimizations(o) ==
    (IF BurstShareExcessive(o) THEN <<"state_optimization">> ELSE <<>>)
    \o (IF calculate_power_efficiency_high(o) THEN <<"efficiency_alert">> ELSE <<>>)
    \o (IF StandbyDurationShort(o) THEN <<"idle_optimization">> ELSE <<>>)

\* the body of the loop of apply_optimizations for one suggestion
apply_suggestion(p, suggestion) ==
    CASE suggestion = "state_optimization" ->
            [p EXCEPT !.burst_min_scalings = @ + 1]
      [] suggestion = "efficiency_alert" ->
            [p EXCEPT !.active_max_scalings = @ + 1]
      [] suggestion = "idle_optimization" ->
            request_power_state(p, "standby").p
      [] OTHER -> p

RECURSIVE ApplyFrom(_, _, _)
ApplyFrom(p, suggestions, i) ==
    IF i > Len(suggestions) THEN p
    ELSE ApplyFrom(apply_suggestion(p, suggestions[i]), suggestions, i + 1)

\* PowerOptimizer.apply_optimizations: the power system after the call
apply_optimizations(p, o) == ApplyFrom(p, suggest_optimizations(o), 1)

RecordUsage(pattern) ==
    /\ Len(po.usage_history) < MaxUsage
    /\ po' = record_usage(po, pattern)
    /\ UNCHANGED <<pms, last_call, sm, mc, trace, hsi, mon, threads, bus, loops>>

ApplyOptimizations ==
    /\ pms.burst_min_scalings < MaxOptimizations
    /\ pms.active_max_scalings < MaxOptimizations
    /\ pms' = apply_optimizations(pms, po)
    /\ last_call' = [op |-> "apply_optimizations", target |-> "none",
                     from |-> pms.current_state, result |-> TRUE]
    /\ UNCHANGED <<sm, mc, trace, hsi, po, mon, threads, bus, loops>>

(***************************************************************************)
(* Safety Monitor: src/src/core/system_interface/safety_manager.py         *)
(***************************************************************************)
SafetyCondition == {"temperature", "power", "projection", "mechanical", "environment"}

\* iteration order of `for condition in SafetyCondition` and of the
\* _current_conditions dict (filled in the same order)
ConditionOrder == <<"temperature", "power", "projection", "mechanical", "environment">>

SafetyAction == {"notify", "throttle", "shutdown", "emergency_shutdown"}

\* SafetyManager.__init__: self._thresholds
DefaultThresholds ==
    [c \in SafetyCondition |->
        CASE c = "temperature" -> [warning_level |-> 40, critical_level |-> 50,
                                   action |-> "shutdown", recovery_level |-> 35]
          [] c = "power"       -> [warning_level |-> 15, critical_level |-> 5,
                                   action |-> "shutdown", recovery_level |-> 20]
          [] c = "projection"  -> [warning_level |-> 80, critical_level |-> 95,
                                   action |-> "throttle", recovery_level |-> 70]
          [] c = "mechanical"  -> [warning_level |-> 85, critical_level |-> 95,
                                   action |-> "emergency_shutdown", recovery_level |-> 75]
          [] c = "environment" -> [warning_level |-> 85, critical_level |-> 95,
                                   action |-> "notify", recovery_level |-> 75]]

\* value written by _update_environmental_conditions
EnvironmentPlaceholder == 50

\* SafetyManager._calculate_mechanical_stress:
\*   (min(a / 10.0, 1.0) * 0.7 + min(v / 100.0, 1.0) * 0.3) * 100.0
\* acceleration in m/s^2, vibration in Hz.  The factors are kept in percent;
\* for the metric values in TickInputs the float result is the same integer.
calculate_mechanical_stress(acceleration, vibration) ==
    LET acceleration_factor == Min(acceleration * 10, 100)
        vibration_factor == Min(vibration, 100)
    IN  (acceleration_factor * 7 + vibration_factor * 3) \div 10

\* SafetyManager.__init__ (no handler registered yet)
InitSM ==
    [is_monitoring |-> FALSE,
     thresholds |-> DefaultThresholds,
     current_conditions |-> [c \in {} |-> 0],
     active_warnings |-> {},
     safety_events |-> <<>>,
     event_handlers |-> [a \in SafetyAction |-> <<>>],
     action_log |-> <<>>]

(***************************************************************************)
(* Main Coordinator: src/src/core/system_interface/main_controller.py      *)
(* Only the handlers are needed by the Safety Monitor's dispatch; the      *)
(* public operations follow further down.                                  *)
(***************************************************************************)
SystemState == {"initializing", "ready", "projecting", "interactive",
                "low_power", "error", "shutdown"}

\* MainController.__init__
InitMC == [state |-> "initializing"]

\* MainController._handle_system_error: sets ERROR; the alert call that
\* follows raises inside the handler's own try block and is swallowed.
handle_system_error(m) == [m EXCEPT !.state = "error"]

\* MainController.stop_hologram_projection: stop_emission and stop_scanning
\* swallow their own failures and the meta-surface cleanup cannot fail, so
\* the assignment of READY is always reached.
stop_hologram_projection(m) == [m EXCEPT !.state = "ready"]

\* MainController._handle_emergency_shutdown: sets SHUTDOWN first; every
\* later failure is caught inside the handler.
handle_emergency_shutdown(m) == [m EXCEPT !.state = "shutdown"]

\* MainController._handle_controlled_shutdown: sets SHUTDOWN, stops the
\* projection (which sets READY), then `await`s the return value of the
\* synchronous StatusMonitor._record_alert.  Awaiting None raises TypeError,
\* so the except branch always runs the emergency handler.  A failure in an
\* earlier step reaches the same except branch.
handle_controlled_shutdown(m) ==
    LET m1 == [m EXCEPT !.state = "shutdown"]
        m2 == stop_hologram_projection(m1)
    IN  handle_emergency_shutdown(m2)

\* MainController._handle_system_throttling: the first statement calls
\* ProjectionOptimizer.reduce_power_consumption, which does not exist; the
\* AttributeError is caught and nothing else runs.
handle_system_throttling(m) == m

\* MainController._register_safety_handlers
RegisteredHandlers ==
    [a \in SafetyAction |->
        CASE a = "emergency_shutdown" -> <<"_handle_emergency_shutdown">>
          [] a = "shutdown"           -> <<"_handle_controlled_shutdown">>
          [] a = "throttle"           -> <<"_handle_system_throttling">>
          [] a = "notify"             -> <<>>]

\* handlers a client of the Safety Monitor registers: one that raises and
\* one that returns; neither touches the coordinator
ClientHandlers == {"raising_handler", "returning_handler"}
RaisingHandlers == {"raising_handler"}

\* `await handler(condition, value)` for one registered handler
RunHandler(h, m) ==
    CASE h = "_handle_emergency_shutdown"  -> handle_emergency_shutdown(m)
      [] h = "_handle_controlled_shutdown" -> handle_controlled_shutdown(m)
      [] h = "_handle_system_throttling"   -> handle_system_throttling(m)
      [] OTHER                             -> m

\* the handler loop of _execute_safety_action on r = [m |-> the coordinator,
\* calls |-> the handlers called so far, aborted |-> whether an exception
\* left the loop]; each call sits in its own try/except, so the loop goes on
\* after a handler that raises
RECURSIVE RunHandlers_StopsAtRaise(_, _)
RunHandlers_StopsAtRaise(hs, r) ==
    IF hs = <<>> THEN r
    ELSE LET r1 == [r EXCEPT !.m = RunHandler(Head(hs), r.m),
                             !.calls = Append(r.calls, Head(hs))]
         IN  IF Head(hs) \in RaisingHandlers THEN [r1 EXCEPT !.aborted = TRUE]
             ELSE RunHandlers_StopsAtRaise(Tail(hs), r1)

RECURSIVE RunHandlers(_, _)
RunHandlers(hs, r) ==
    IF hs = <<>> THEN r
    ELSE RunHandlers(Tail(hs), [r EXCEPT !.m = RunHandler(Head(hs), r.m),
                                         !.calls = Append(r.calls, Head(hs))])

(***************************************************************************)
(* A world is the pair of objects a safety dispatch can change.            *)
(***************************************************************************)
\* SafetyManager._execute_safety_action: handlers in registration order,
\* then the built-in _perform_* procedure of the action (NOTIFY has none),
\* which only logs.  The log entry records the handlers called and whether
\* the built-in procedure was reached.
execute_safety_action(w, action, condition, value) ==
    LET r == RunHandlers(w.sm.event_handlers[action],
                         [m |-> w.mc, calls |-> <<>>, aborted |-> FALSE])
    IN  [sm |-> [w.sm EXCEPT !.action_log =
                     Append(@, [action |-> action, condition |-> condition,
                                handlers |-> r.calls,
                                built_in |-> (~r.aborted /\ action # "notify")])],
         mc |-> r.m]

\* SafetyManager._handle_critical_condition
handle_critical_condition(w, condition, value) ==
    LET action == w.sm.thresholds[condition].action
        event == [condition |-> condition, level |-> value,
                  action_taken |-> action, kind |-> "critical"]
        w1 == [w EXCEPT !.sm.safety_events = Append(@, event)]
    IN  execute_safety_action(w1, action, condition, value)

\* SafetyManager._handle_warning_condition
handle_warning_condition(w, condition, value) ==
    IF condition \notin w.sm.active_warnings
    THEN [w EXCEPT !.sm.active_warnings = @ \cup {condition},
                   !.sm.safety_events =
                       Append(@, [condition |-> condition, level |-> value,
                                  action_taken |-> "notify", kind |-> "warning"])]
    ELSE w

\* SafetyManager._handle_condition_recovery
handle_condition_recovery(w, condition) ==
    IF condition \in w.sm.active_warnings
    THEN [w EXCEPT !.sm.active_warnings = @ \ {condition},
                   !.sm.safety_events =
                       Append(@, [condition |-> condition,
                                  level |-> w.sm.current_conditions[condition],
                                  action_taken |-> "notify", kind |-> "recovery"])]
    ELSE w

\* SafetyManager._check_safety_threshold; a condition with no recorded value
\* raises KeyError, which the method catches
check_safety_threshold(w, condition) ==
    IF condition \notin DOMAIN w.sm.current_conditions THEN w
    ELSE
    LET current_value == w.sm.current_conditions[condition]
        threshold == w.sm.thresholds[condition]
    IN  IF current_value >= threshold.critical_level
        THEN handle_critical_condition(w, condition, current_value)
        ELSE IF current_value >= threshold.warning_level
        THEN handle_warning_condition(w, condition, current_value)
        ELSE IF condition \in w.sm.active_warnings
                /\ current_value <= threshold.recovery_level
        THEN handle_condition_recovery(w, condition)
        ELSE w

\* SafetyManager._update_safety_conditions, reading the metrics m that the
\* status monitor holds (absent keys read as 0)
update_safety_conditions(w, m) ==
    [w EXCEPT !.sm.current_conditions =
        [c \in SafetyCondition |->
            CASE c = "temperature" -> m.temperature
              [] c = "power"       -> m.battery_level
              [] c = "projection"  -> m.power_level
              [] c = "mechanical"  -> calculate_mechanical_stress(m.acceleration, m.vibration)
              [] c = "environment" -> EnvironmentPlaceholder]]

RECURSIVE CheckAll(_, _)
CheckAll(w, cs) ==
    IF cs = <<>> THEN w ELSE CheckAll(check_safety_threshold(w, Head(cs)), Tail(cs))

\* SafetyManager._process_safety_actions
RECURSIVE ProcessFrom(_, _)
ProcessFrom(w, cs) ==
    IF cs = <<>> THEN w
    ELSE LET c == Head(cs)
             value == w.sm.current_conditions[c]
             threshold == w.sm.thresholds[c]
         IN  ProcessFrom(IF value >= threshold.critical_level
                         THEN execute_safety_action(w, threshold.action, c, value)
                         ELSE w,
                         Tail(cs))

process_safety_actions(w) == ProcessFrom(w, ConditionOrder)

\* one iteration of SafetyManager._safety_monitor_loop
safety_tick(w, m) ==
    process_safety_actions(CheckAll(update_safety_conditions(w, m), ConditionOrder))

\* SafetyManager.initialize
safety_initialize(s) ==
    [s EXCEPT !.current_conditions = [c \in SafetyCondition |-> 0],
              !.is_monitoring = TRUE]

\* SafetyManager.cleanup
safety_cleanup(s) == [s EXCEPT !.is_monitoring = FALSE]

\* Metric snapshots a tick may read from the status monitor
Baseline ==
    [temperature |-> 0, battery_level |-> 0, power_level |-> 0,
     acceleration |-> 0, vibration |-> 0]

TickInputs ==
    {[Baseline EXCEPT !.temperature = t] : t \in {0, 34, 41, 51}}
    \cup {[Baseline EXCEPT !.battery_level = 100],
          [Baseline EXCEPT !.power_level = 85],
          [Baseline EXCEPT !.power_level = 96],
          [Baseline EXCEPT !.acceleration = 10, !.vibration = 50],
          [Baseline EXCEPT !.acceleration = 10, !.vibration = 100]}

World == [sm |-> sm, mc |-> mc]

SafetyInitialize ==
    /\ ~sm.is_monitoring
    /\ sm' = safety_initialize(sm)
    /\ UNCHANGED <<pms, last_call, mc, trace, hsi, po, mon, threads, bus, loops>>

SafetyTickBounded(limit) ==
    /\ sm.is_monitoring
    /\ Len(trace) < limit
    /\ \E m \in TickInputs : \E w \in {safety_tick(World, m)} :
          /\ sm' = w.sm
          /\ mc' = w.mc
          /\ trace' = Append(trace, w.sm.current_conditions)
    /\ UNCHANGED <<pms, last_call, hsi, po, mon, threads, bus, loops>>

SafetyTick == SafetyTickBounded(MaxTicks)

\* handlers that await a register write of a driver: while the write sleeps,
\* the event loop runs the other tasks
SuspendingHandlers == {"_handle_emergency_shutdown", "_handle_controlled_shutdown"}

\* the threshold checks of one tick from the k-th condition on, up to the
\* first check that awaited a suspending handler (pos is its index) or to the
\* end of the tick (pos is 0), where _process_safety_actions runs
RECURSIVE check_from(_, _)
check_from(w, k) ==
    IF k > Len(ConditionOrder)
    THEN [w |-> process_safety_actions(w), pos |-> 0]
    ELSE LET w1 == check_safety_threshold(w, ConditionOrder[k])
             awaited == IF Len(w1.sm.action_log) > Len(w.sm.action_log)
                        THEN w1.sm.action_log[Len(w1.sm.action_log)].handlers
                        ELSE <<>>
         IN  IF \E i \in 1..Len(awaited) : awaited[i] \in SuspendingHandlers
             THEN [w |-> w1, pos |-> k]
             ELSE check_from(w1, k + 1)

\* `await self.safety_manager.initialize()`, as every initialize_system call
\* makes it: the conditions are reset and one more loop task is created
SafetyLoopCreated ==
    /\ Len(loops) < MaxLoops
    /\ sm' = safety_initialize(sm)
    /\ loops' = Append(loops, [pos |-> 0, snapshot |-> <<>>])
    /\ UNCHANGED <<pms, last_call, mc, trace, hsi, po, mon, threads, bus>>

\* loop task i passes `while self._is_monitoring`, updates the conditions
\* and checks them until a handler suspends or the tick ends
TickStarts(i) ==
    /\ loops[i].pos = 0
    /\ sm.is_monitoring
    /\ Len(trace) < MaxMainTicks
    /\ \E m \in TickInputs :
       \E w1 \in {update_safety_conditions(World, m)} :
       \E r \in {check_from(w1, 1)} :
          /\ sm' = r.w.sm
          /\ mc' = r.w.mc
          /\ trace' = Append(trace, w1.sm.current_conditions)
          /\ loops' = [loops EXCEPT ![i] =
                          [pos |-> r.pos, snapshot |-> w1.sm.current_conditions]]
    /\ UNCHANGED <<pms, last_call, hsi, po, mon, threads, bus>>

\* the handler loop task i awaited returns and the task checks the
\* remaining conditions
TickResumes(i) ==
    /\ loops[i].pos > 0
    /\ \E r \in {check_from(World, loops[i].pos + 1)} :
          /\ sm' = r.w.sm
          /\ mc' = r.w.mc
          /\ loops' = [loops EXCEPT ![i].pos = r.pos]
    /\ UNCHANGED <<pms, last_call, trace, hsi, po, mon, threads, bus>>

\* the safety action clients register handlers for
HandledActions == {"throttle"}

\* SafetyManager.register_safety_handler
register_safety_handler(s, action, handler) ==
    [s EXCEPT !.event_handlers[action] = Append(@, handler)]

RECURSIVE RemoveFirst(_, _)
\* list.remove(handler): the list without its first occurrence of handler
RemoveFirst(hs, handler) ==
    IF hs = <<>> THEN <<>>
    ELSE IF Head(hs) = handler THEN Tail(hs)
    ELSE <<Head(hs)>> \o RemoveFirst(Tail(hs), handler)

\* SafetyManager.unregister_safety_handler
unregister_safety_handler(s, action, handler) ==
    IF \E i \in 1..Len(s.event_handlers[action]) : s.event_handlers[action][i] = handler
    THEN [s EXCEPT !.event_handlers[action] = RemoveFirst(@, handler)]
    ELSE s

RegisterSafetyHandler(action, handler) ==
    /\ Len(sm.event_handlers[action]) < MaxHandlers
    /\ sm' = register_safety_handler(sm, action, handler)
    /\ UNCHANGED <<pms, last_call, mc, trace, hsi, po, mon, threads, bus, loops>>

UnregisterSafetyHandler(action, handler) ==
    /\ sm' = unregister_safety_handler(sm, action, handler)
    /\ UNCHANGED <<pms, last_call, mc, trace, hsi, po, mon, threads, bus, loops>>

HandlerTick == SafetyTickBounded(MaxHandlerTicks)

SafetyCleanup ==
    /\ sm.is_monitoring
    /\ sm' = safety_cleanup(sm)
    /\ UNCHANGED <<pms, last_call, mc, trace, hsi, po, mon, threads, bus, loops>>

(***************************************************************************)
(* Main Coordinator operations                                             *)
(***************************************************************************)
MaxEvents == 4
InteractionKinds == {"gesture", "voice", "other"}

\* the subsystem groups initialize_system initialises after the safety
\* manager and the status monitor: _initialize_power_system,
\* _initialize_projection_system, _initialize_ui_components
SubsystemGroups == {"power", "projection", "ui"}

\* the exception a group's initialiser raises when one of its components
\* fails to initialise: the group's name and the component's message
InitializationError(group) ==
    CASE group = "power"      -> "Power system initialization failed"
      [] group = "projection" -> "Projection system initialization failed"
      [] group = "ui"         -> "UI initialization failed"

\* MainController.initialize_system: the safety manager is initialised
\* first; a failure of a later subsystem goes to _handle_system_error,
\* which stores the exception's text in system_status.errors under the key
\* "initialization" (and in last_error).  `failed` names the group whose
\* initialiser raises, "none" when all of them return.
initialize_system_KeepsState(w, failed) ==
    [sm |-> safety_initialize(w.sm),
     mc |-> IF failed = "none" THEN [w.mc EXCEPT !.state = "ready"] ELSE w.mc,
     ok |-> failed = "none",
     error |-> IF failed = "none" THEN "none" ELSE InitializationError(failed)]

initialize_system(w, failed) ==
    [sm |-> safety_initialize(w.sm),
     mc |-> IF failed = "none" THEN [w.mc EXCEPT !.state = "ready"]
            ELSE handle_system_error(w.mc),
     ok |-> failed = "none",
     error |-> IF failed = "none" THEN "none" ELSE InitializationError(failed)]

\* MainController.start_hologram_projection: _verify_projection_safety
\* tests `not await _check_safety_threshold(TEMPERATURE)`; the check returns
\* None, so the call returns False right after evaluating that one
\* threshold (with the handlers it may dispatch).
start_hologram_projection(w) == check_safety_threshold(w, "temperature")

\* MainController.process_interaction: the coordinator after the call, the
\* kind of dict returned and whether the processing of the interaction (the
\* recognizer and the interaction handler) was started.  handled_ok tells
\* whether that processing returns or raises.
InteractionRejected(m) ==
    [m |-> handle_system_error(m), response |-> "error", handler_called |-> FALSE]

process_interaction_AllowsReady(m, interaction_type, handled_ok) ==
    IF m.state \notin {"interactive", "low_power", "ready"} THEN InteractionRejected(m)
    ELSE IF interaction_type \notin {"gesture", "voice"} THEN InteractionRejected(m)
    ELSE IF handled_ok
    THEN [m |-> m, response |-> "response", handler_called |-> TRUE]
    ELSE [m |-> handle_system_error(m), response |-> "error", handler_called |-> TRUE]

process_interaction(m, interaction_type, handled_ok) ==
    IF m.state \notin {"interactive", "low_power"} THEN InteractionRejected(m)
    ELSE IF interaction_type \notin {"gesture", "voice"} THEN InteractionRejected(m)
    ELSE IF handled_ok
    THEN [m |-> m, response |-> "response", handler_called |-> TRUE]
    ELSE [m |-> handle_system_error(m), response |-> "error", handler_called |-> TRUE]

\* MainController.update_system_status: ProjectionOptimizer has no
\* get_status, so the try block always ends in _handle_system_error.
update_system_status(m) == handle_system_error(m)

\* MainController.shutdown: SHUTDOWN is assigned first; when every cleanup
\* succeeds the safety manager's loop flag is cleared, otherwise the except
\* branch runs the emergency handler.
shutdown(w, cleanup_ok) ==
    LET m1 == [w.mc EXCEPT !.state = "shutdown"]
    IN  IF cleanup_ok
        THEN [sm |-> safety_cleanup(w.sm), mc |-> m1]
        ELSE [sm |-> w.sm, mc |-> handle_emergency_shutdown(m1)]

\* the record of a coordinator call and its return value
CoordinatorCall(op, result) ==
    [op |-> op, target |-> "none", from |-> pms.current_state, result |-> result]

\* the record of an initialize_system call: the group that failed, the
\* error text the call stored and the returned bool
InitializeSystem ==
    /\ \E failed \in SubsystemGroups \cup {"none"} :
       \E w \in {initialize_system(World, failed)} :
          /\ sm' = w.sm
          /\ mc' = w.mc
          /\ last_call' = [op |-> "initialize_system", target |-> failed,
                           from |-> w.error, result |-> w.ok]
    /\ UNCHANGED <<pms, trace, hsi, po, mon, threads, bus, loops>>

StartHologramProjection ==
    /\ Len(sm.safety_events) < MaxEvents
    /\ \E w \in {start_hologram_projection(World)} : sm' = w.sm /\ mc' = w.mc
    /\ last_call' = CoordinatorCall("start_hologram_projection", FALSE)
    /\ UNCHANGED <<pms, trace, hsi, po, mon, threads, bus, loops>>

StopHologramProjection ==
    /\ mc' = stop_hologram_projection(mc)
    /\ last_call' = CoordinatorCall("stop_hologram_projection", TRUE)
    /\ UNCHANGED <<pms, sm, trace, hsi, po, mon, threads, bus, loops>>

ProcessInteraction ==
    /\ \E k \in InteractionKinds, ok \in BOOLEAN :
       \E r \in {process_interaction(mc, k, ok)} :
          /\ mc' = r.m
          /\ last_call' = [op |-> "process_interaction",
                           target |-> IF r.handler_called THEN "handler" ELSE "none",
                           from |-> pms.current_state,
                           result |-> r.response # "error"]
    /\ UNCHANGED <<pms, sm, trace, hsi, po, mon, threads, bus, loops>>

UpdateSystemStatus ==
    /\ mc' = update_system_status(mc)
    /\ last_call' = CoordinatorCall("update_system_status", TRUE)
    /\ UNCHANGED <<pms, sm, trace, hsi, po, mon, threads, bus, loops>>

Shutdown ==
    /\ \E ok \in BOOLEAN : \E w \in {shutdown(World, ok)} :
          /\ sm' = w.sm
          /\ mc' = w.mc
          /\ last_call' = CoordinatorCall("shutdown", ok)
    /\ UNCHANGED <<pms, trace, hsi, po, mon, threads, bus, loops>>

MainSafetyTick == SafetyTickBounded(MaxMainTicks)

(***************************************************************************)
(* System interface: src/src/core/system_interface.py with the projector   *)
(* of src/src/core/holographic_controller.py.  An interface state s is the *)
(* pair [p |-> its power system, h |-> the interface and projector flags]. *)
(* The monitoring thread is modelled one loop iteration at a time.         *)
(***************************************************************************)
\* HolographicProjector._projection_thread: no thread object, a thread that
\* was started, or a thread object whose start() raised
ThreadState == {"none", "started", "unstarted"}

\* HolographicSystemInterface.__init__ and HolographicProjector.__init__
InitHSI ==
    [is_projecting |-> FALSE,
     projection_thread |-> "none",
     is_monitoring |-> FALSE]

\* HolographicProjector._get_system_temperature
ProjectorTemperature == 25

Max(a, b) == IF a >= b THEN a ELSE b

\* HolographicProjector.start_projection.  is_projecting is set before the
\* thread is created; thread_ok tells whether Thread.start() returned or
\* raised RuntimeError (the interpreter could not start a new thread).
start_projection(h, thread_ok) ==
    IF h.is_projecting
    THEN [h |-> h, raised |-> FALSE]
    ELSE [h |-> [h EXCEPT !.is_projecting = TRUE,
                          !.projection_thread =
                              IF thread_ok THEN "started" ELSE "unstarted"],
          raised |-> ~thread_ok]

\* HolographicProjector.stop_projection.  Thread.join() on a thread object
\* that was never started raises RuntimeError, after the flag is cleared.
stop_projection(h) ==
    LET h1 == [h EXCEPT !.is_projecting = FALSE]
    IN  IF h.projection_thread = "unstarted"
        THEN [h |-> h1, raised |-> TRUE]
        ELSE [h |-> [h1 EXCEPT !.projection_thread = "none"], raised |-> FALSE]

\* HolographicSystemInterface.initialize_system: the power sources'
\* initialize() are empty and the projector's only prints; then
\* _start_monitoring sets the loop flag.  Returns True.
hsi_initialize_system(s) == [s EXCEPT !.h.is_monitoring = TRUE]

\* HolographicSystemInterface.start_hologram: the state after the call and
\* the returned bool
start_hologram(s, thread_ok) ==
    LET r1 == request_power_state(s.p, "active")
        r2 == request_power_state(r1.p, "burst")
        p3 == IF r2.p.battery_level > 50 THEN charge_supercapacitor(r2.p) ELSE r2.p
        sp == start_projection(s.h, thread_ok)
    IN  IF ~r1.ok THEN [p |-> r1.p, h |-> s.h, ok |-> FALSE]
        ELSE IF ~r2.ok
        THEN [p |-> request_power_state(r2.p, "standby").p, h |-> s.h, ok |-> FALSE]
        ELSE [p |-> p3, h |-> sp.h, ok |-> ~sp.raised]

\* HolographicSystemInterface.stop_hologram: an exception raised by
\* stop_projection skips the Standby request
stop_hologram_KeepsPowerState(s) ==
    [p |-> s.p, h |-> stop_projection(s.h).h]

stop_hologram(s) ==
    LET sp == stop_projection(s.h)
    IN  IF sp.raised
        THEN [p |-> s.p, h |-> sp.h]
        ELSE [p |-> request_power_state(s.p, "standby").p, h |-> sp.h]

\* HolographicSystemInterface._handle_high_temperature
handle_high_temperature(s) ==
    LET s1 == IF s.h.is_projecting THEN stop_hologram(s) ELSE s
    IN  [s1 EXCEPT !.p = activate_thermal_management(s1.p)]

\* HolographicSystemInterface._handle_low_battery
handle_low_battery(s) ==
    LET s1 == IF s.h.is_projecting THEN stop_hologram(s) ELSE s
    IN  [s1 EXCEPT !.p = request_power_state(s1.p, "low_power").p]

\* one iteration of HolographicSystemInterface._monitoring_loop;
\* get_system_status appends a snapshot to the power history and reports
\* the larger of the power system's and the projector's temperature
monitoring_loop(s) ==
    LET status_temperature == Max(s.p.temperature, ProjectorTemperature)
        status_battery_level == s.p.battery_level
        s0 == [s EXCEPT !.p = monitor_power_consumption(s.p)]
        s1 == IF status_temperature > 40 THEN handle_high_temperature(s0) ELSE s0
        s2 == IF status_battery_level < 15 THEN handle_low_battery(s1) ELSE s1
    IN  [s2 EXCEPT !.p = optimize_power_consumption(s2.p)]

\* HolographicSystemInterface.shutdown
hsi_shutdown_RecordsSnapshot(s) ==
    LET s0 == [s EXCEPT !.h.is_monitoring = FALSE,
                        !.p = monitor_power_consumption(s.p)]
        s1 == IF s0.h.is_projecting THEN stop_hologram(s0) ELSE s0
    IN  [s1 EXCEPT !.p = request_power_state(s1.p, "standby").p]

hsi_shutdown_SkipsStop(s) ==
    LET s0 == [s EXCEPT !.h.is_monitoring = FALSE]
    IN  [s0 EXCEPT !.p = request_power_state(s0.p, "standby").p]

hsi_shutdown(s) ==
    LET s0 == [s EXCEPT !.h.is_monitoring = FALSE]
        s1 == IF s0.h.is_projecting THEN stop_hologram(s0) ELSE s0
    IN  [s1 EXCEPT !.p = request_power_state(s1.p, "standby").p]

System == [p |-> pms, h |-> hsi]

\* the record of an interface call: its input and its return value (for
\* shutdown the input slot tells whether the call before it was shutdown too)
SystemCall(op, input, result) ==
    [op |-> op, target |-> input, from |-> pms.current_state, result |-> result]

SystemInitialize ==
    /\ LET s == hsi_initialize_system(System)
       IN  pms' = s.p /\ hsi' = s.h
    /\ last_call' = SystemCall("system.initialize_system", "none", TRUE)
    /\ UNCHANGED <<sm, mc, trace, po, mon, threads, bus, loops>>

StartHologram ==
    /\ \E thread_ok \in BOOLEAN :
          LET s == start_hologram(System, thread_ok)
          IN  /\ pms' = s.p
              /\ hsi' = s.h
              /\ last_call' = SystemCall("system.start_hologram",
                                         IF thread_ok THEN "none" ELSE "thread_error",
                                         s.ok)
    /\ UNCHANGED <<sm, mc, trace, po, mon, threads, bus, loops>>

StopHologram ==
    /\ LET s == stop_hologram(System)
       IN  pms' = s.p /\ hsi' = s.h
    /\ last_call' = SystemCall("system.stop_hologram", "none", TRUE)
    /\ UNCHANGED <<sm, mc, trace, po, mon, threads, bus, loops>>

MonitoringLoop ==
    /\ hsi.is_monitoring
    /\ Len(pms.power_history) < MaxHistory
    /\ LET s == monitoring_loop(System)
       IN  pms' = s.p /\ hsi' = s.h
    /\ last_call' = SystemCall("system.monitoring_loop", "none", TRUE)
    /\ UNCHANGED <<sm, mc, trace, po, mon, threads, bus, loops>>

SystemShutdown ==
    /\ LET s == hsi_shutdown(System)
       IN  pms' = s.p /\ hsi' = s.h
    /\ last_call' = SystemCall("system.shutdown",
                               IF last_call.op = "system.shutdown"
                               THEN "repeated" ELSE "none",
                               TRUE)
    /\ UNCHANGED <<sm, mc, trace, po, mon, threads, bus, loops>>

(***************************************************************************)
(* Threads of the system interface: src/src/core/system_interface.py       *)
(* The caller's thread runs start_hologram and stop_hologram, the thread   *)
(* started by _start_monitoring runs _monitoring_loop.  No lock guards the *)
(* power system, so the interpreter may switch threads between any two     *)
(* statements.  A thread is [agenda |-> the statements it still has to     *)
(* run, next one first, rpc |-> its position inside request_power_state].  *)
(* Inside a request, rpc 0 is the call (the two checks come next), 1 is    *)
(* after the checks (the assignment of current_state comes next) and 2 is  *)
(* after the assignment (_apply_power_profile comes next).  Projection     *)
(* threads start normally here.                                            *)
(***************************************************************************)
ThreadNames == {"caller", "monitor"}

\* one statement; on_fail tells what a refused request does to the rest of
\* the operation: "continue" with it, "return" from it, or run the
\* "fallback" request for Standby and return
Stmt(kind, target, on_fail) == [kind |-> kind, target |-> target, on_fail |-> on_fail]

InitThreads == [t \in ThreadNames |-> [agenda |-> <<>>, rpc |-> 0]]

\* the statements of HolographicSystemInterface.start_hologram
\* (charge_supercapacitor belongs to the start_projection statement)
start_hologram_statements ==
    <<Stmt("request_power_state", "active", "return"),
      Stmt("request_power_state", "burst", "fallback"),
      Stmt("start_projection", "none", "continue")>>

\* the statements of HolographicSystemInterface.stop_hologram
stop_hologram_statements ==
    <<Stmt("stop_projection", "none", "continue"),
      Stmt("request_power_state", "standby", "continue")>>

\* the rest of one _monitoring_loop iteration once get_system_status has
\* returned a status with the given temperature and battery level.
\* _handle_high_temperature and _handle_low_battery both test
\* projector.is_projecting, stop the hologram, then request LowPower.
monitoring_statements(temperature, battery_level) ==
    LET handler == <<Stmt("stop_if_projecting", "none", "continue"),
                     Stmt("request_power_state", "low_power", "continue")>>
    IN  (IF temperature > 40 THEN handler ELSE <<>>)
        \o (IF battery_level < 15 THEN handler ELSE <<>>)
        \o <<Stmt("optimize_battery", "none", "continue"),
              Stmt("optimize_temperature", "none", "continue")>>

\* one step of request_power_state in thread th on the power system p
request_step(p, th) ==
    LET stmt == Head(th.agenda)
        rest == Tail(th.agenda)
    IN  CASE th.rpc = 0 ->
              IF /\ validate_state_transition(p, stmt.target)
                 /\ check_power_availability(p, required_power(p, stmt.target))
              THEN [p |-> p, th |-> [th EXCEPT !.rpc = 1]]
              ELSE [p |-> p,
                    th |-> [th EXCEPT !.agenda =
                               CASE stmt.on_fail = "return" -> <<>>
                                 [] stmt.on_fail = "fallback" ->
                                      <<Stmt("request_power_state", "standby", "continue")>>
                                 [] OTHER -> rest]]
          [] th.rpc = 1 ->
              [p |-> [p EXCEPT !.current_state = stmt.target],
               th |-> [th EXCEPT !.rpc = 2]]
          [] OTHER ->
              [p |-> apply_power_profile(p, stmt.target),
               th |-> [th EXCEPT !.rpc = 0, !.agenda = rest]]

\* the next step of thread th on the interface state s = [p, h]
thread_step(s, th) ==
    LET stmt == Head(th.agenda)
        rest == Tail(th.agenda)
    IN  CASE stmt.kind = "request_power_state" ->
              [p |-> request_step(s.p, th).p, h |-> s.h, th |-> request_step(s.p, th).th]
          [] stmt.kind = "start_projection" ->
              \* charge_supercapacitor, then projector.start_projection
              [p |-> IF s.p.battery_level > 50 THEN charge_supercapacitor(s.p) ELSE s.p,
               h |-> start_projection(s.h, TRUE).h,
               th |-> [th EXCEPT !.agenda = rest]]
          [] stmt.kind = "stop_projection" ->
              \* an exception here leaves stop_hologram past its Standby request
              [p |-> s.p,
               h |-> stop_projection(s.h).h,
               th |-> [th EXCEPT !.agenda =
                          IF stop_projection(s.h).raised THEN Tail(rest) ELSE rest]]
          [] stmt.kind = "stop_if_projecting" ->
              [p |-> s.p, h |-> s.h,
               th |-> [th EXCEPT !.agenda =
                          IF s.h.is_projecting THEN stop_hologram_statements \o rest
                          ELSE rest]]
          [] stmt.kind = "get_system_status" ->
              [p |-> monitor_power_consumption(s.p), h |-> s.h,
               th |-> [th EXCEPT !.agenda =
                          monitoring_statements(Max(s.p.temperature, ProjectorTemperature),
                                                s.p.battery_level)]]
          [] stmt.kind = "optimize_battery" ->
              [p |-> s.p, h |-> s.h,
               th |-> [th EXCEPT !.agenda =
                          IF s.p.battery_level < 20
                          THEN <<Stmt("request_power_state", "low_power", "continue")>> \o rest
                          ELSE rest]]
          [] stmt.kind = "optimize_temperature" ->
              [p |-> s.p, h |-> s.h,
               th |-> [th EXCEPT !.agenda =
                          IF s.p.temperature > 40
                          THEN <<Stmt("request_power_state", "low_power", "continue")>> \o rest
                          ELSE rest]]

\* the caller's thread enters start_hologram or stop_hologram; no call has
\* returned while a thread is inside one
CallerStarts(statements) ==
    /\ threads["caller"].agenda = <<>>
    /\ threads' = [threads EXCEPT !["caller"].agenda = statements]
    /\ last_call' = NoCall
    /\ UNCHANGED <<pms, hsi>>
    /\ UNCHANGED <<sm, mc, trace, po, mon, bus, loops>>

\* the monitoring thread passes `while self._is_monitoring`
MonitorIterates ==
    /\ hsi.is_monitoring
    /\ threads["monitor"].agenda = <<>>
    /\ Len(pms.power_history) < MaxHistory
    /\ threads' = [threads EXCEPT !["monitor"].agenda =
                                <<Stmt("get_system_status", "none", "continue")>>]
    /\ last_call' = NoCall
    /\ UNCHANGED <<pms, hsi>>
    /\ UNCHANGED <<sm, mc, trace, po, mon, bus, loops>>

\* the interpreter runs the next statement of thread t
ThreadStep(t) ==
    /\ threads[t].agenda # <<>>
    /\ \E r \in {thread_step(System, threads[t])} :
          /\ pms' = r.p
          /\ hsi' = r.h
          /\ threads' = [threads EXCEPT ![t] = r.th]
    /\ last_call' = NoCall
    /\ UNCHANGED <<sm, mc, trace, po, mon, bus, loops>>

(***************************************************************************)
(* Status Aggregator: src/src/core/system_interface/status_monitor.py      *)
(* datetime.now() is the field `clock`, in seconds.  One iteration of the   *)
(* status update loop is two scheduling steps: asyncio.gather queues the   *)
(* six update tasks back to back, and none of them has a suspension point, *)
(* so they run consecutively in creation order; the health analysis runs   *)
(* when the loop coroutine is resumed afterwards.  Every initialize()      *)
(* starts one more status update loop; `poll[i]` is 1 while loop i is      *)
(* between its two steps and 0 otherwise; `polls` and `advances` count the *)
(* iterations started and the time steps taken.                            *)
(***************************************************************************)
MaxPolls == 2
MaxAdvances == 2
MaxRecordedAlerts == 1

SystemComponent == {"power", "projection", "thermal", "motion", "interface", "safety"}

\* iteration order of `for component in SystemComponent` and of the
\* _component_status dict (filled in the same order)
ComponentOrder == <<"power", "projection", "thermal", "motion", "interface", "safety">>

AlertLevel == {"info", "warning", "error", "critical"}

\* self._status_update_interval and self._alert_retention_period, seconds
StatusUpdateInterval == 1
AlertRetentionPeriod == 3600

\* seconds that pass between two scheduling steps
TimeSteps == {4, 3600}

\* callbacks that are coroutine functions (`async def`): calling one builds
\* a coroutine object and runs none of its body
AsyncCallbacks == {"_handle_system_warning", "_handle_system_critical"}

\* a plain-function callback a client registers, and the levels it asks for
ClientCallbacks == {"on_alert"}
ClientLevels == {"error", "critical"}

\* the alerts clients of the monitor report
ReportedComponents == {"safety", "interface"}
ReportedLevels == {"warning", "critical"}

\* StatusMonitor.__init__
InitMonitor ==
    [component_status |-> <<>>,
     alert_history |-> <<>>,
     alert_callbacks |-> [l \in AlertLevel |-> <<>>],
     is_monitoring |-> FALSE,
     clock |-> 0,
     advances |-> 0,
     poll |-> <<>>,
     polls |-> 0,
     callback_runs |-> <<>>]

\* StatusMonitor.register_alert_callback
register_alert_callback(m, level, callback) ==
    [m EXCEPT !.alert_callbacks[level] = Append(@, callback)]

\* SafetyManager.__init__: the two alert handlers it registers with the
\* status monitor it is given
MonitorWithSafetyManager ==
    register_alert_callback(
        register_alert_callback(InitMonitor, "warning", "_handle_system_warning"),
        "critical", "_handle_system_critical")

\* StatusMonitor.initialize
monitor_initialize(m) ==
    [m EXCEPT !.component_status =
                  [c \in SystemComponent |->
                      [status |-> "initializing", health |-> 100,
                       last_update |-> m.clock, metrics |-> <<>>,
                       alerts |-> <<>>]],
              !.is_monitoring = TRUE,
              !.poll = Append(@, 0)]

RECURSIVE RunCallbacks(_, _, _, _)
\* the callback loop of _record_alert: callback(alert) for each registered
\* callback in order; only a plain function executes its body
RunCallbacks(runs, callbacks, i, alert) ==
    IF i > Len(callbacks) THEN runs
    ELSE RunCallbacks(IF callbacks[i] \in AsyncCallbacks THEN runs
                      ELSE Append(runs, [callback |-> callbacks[i], alert |-> alert]),
                      callbacks, i + 1, alert)

\* StatusMonitor._record_alert.  An untracked component raises KeyError
\* before anything is appended; the method catches and logs it.
record_alert(m, component, level, message) ==
    LET alert == [component |-> component, level |-> level,
                  message |-> message, timestamp |-> m.clock]
    IN  IF component \notin DOMAIN m.component_status THEN m
        ELSE [m EXCEPT !.component_status[component].alerts = Append(@, alert),
                       !.alert_history = Append(@, alert),
                       !.callback_runs =
                           RunCallbacks(@, m.alert_callbacks[level], 1, alert)]

\* StatusMonitor._calculate_component_health.  _calculate_power_health and
\* _calculate_thermal_health are defined nowhere: the attribute lookup
\* raises AttributeError, which the method catches, returning 0.0.
calculate_component_health(component) ==
    IF component \in {"power", "thermal"} THEN 0 ELSE 100

\* what the sensors show when a poll reads them
SensorReadings == {"cool", "hot"}

sensed_temperature(reading) == IF reading = "hot" THEN 60 ELSE 25

\* whether the getter _collect_component_metrics awaits for a component
\* returns: _get_battery_status awaits a ComponentStatus object (TypeError),
\* and _get_projection_metrics, _get_thermal_metrics and _get_motion_metrics
\* are defined nowhere (AttributeError)
getter_returns(component) == FALSE

\* StatusMonitor._collect_component_metrics: the dict built from what the
\* component's getter returned, or {} from the except branch and for the
\* components that have no branch
collect_component_metrics(component, reading) ==
    IF ~getter_returns(component) THEN <<>>
    ELSE CASE component = "power" ->
                  [battery_level |-> 80, power_consumption |-> 0,
                   temperature |-> sensed_temperature(reading)]
           [] component = "projection" ->
                  [brightness |-> 0, resolution |-> 0, stability |-> 0]
           [] component = "thermal" ->
                  [temperature_gradient |-> 0, cooling_efficiency |-> 0]
           [] component = "motion" ->
                  [acceleration |-> 0, stability |-> 0]
           [] OTHER -> <<>>

\* StatusMonitor._update_component_status
update_component_status(m, component, reading) ==
    IF component \notin DOMAIN m.component_status
    THEN record_alert(m, component, "error", "Status update failed")
    ELSE LET health == calculate_component_health(component)
         IN  [m EXCEPT !.component_status[component] =
                 [status |-> IF health > 50 THEN "operational" ELSE "degraded",
                  health |-> health,
                  last_update |-> m.clock,
                  metrics |-> collect_component_metrics(component, reading),
                  alerts |-> m.component_status[component].alerts]]

RECURSIVE UpdateFrom(_, _, _)
UpdateFrom(m, i, reading) ==
    IF i > Len(ComponentOrder) THEN m
    ELSE UpdateFrom(update_component_status(m, ComponentOrder[i], reading),
                    i + 1, reading)

\* StatusMonitor._update_all_components
update_all_components(m, reading) == UpdateFrom(m, 1, reading)

\* the body of the loop of _analyze_system_health for one component
analyze_component_WarningBelow20(m, component) ==
    LET status == m.component_status[component]
        m1 == IF status.health < 50
              THEN record_alert(m, component, "warning", "Low health")
              ELSE m
    IN  IF m.clock - status.last_update > StatusUpdateInterval * 3
        THEN record_alert(m1, component, "error", "Stale status")
        ELSE m1

analyze_component(m, component) ==
    LET status == m.component_status[component]
        m1 == IF status.health < 20
              THEN record_alert(m, component, "critical", "Critical health")
              ELSE IF status.health < 50
              THEN record_alert(m, component, "warning", "Low health")
              ELSE m
    IN  IF m.clock - status.last_update > StatusUpdateInterval * 3
        THEN record_alert(m1, component, "error", "Stale status")
        ELSE m1

RECURSIVE AnalyzeFrom(_, _)
AnalyzeFrom(m, i) ==
    IF i > Len(ComponentOrder) THEN m
    ELSE AnalyzeFrom(IF ComponentOrder[i] \in DOMAIN m.component_status
                     THEN analyze_component(m, ComponentOrder[i]) ELSE m,
                     i + 1)

\* StatusMonitor._analyze_system_health
analyze_system_health(m) == AnalyzeFrom(m, 1)

\* the list comprehension of the retention sweep
Retained(alerts, cutoff_time) ==
    LET Young(alert) == alert.timestamp > cutoff_time
    IN  SelectSeq(alerts, Young)

\* one iteration of StatusMonitor._alert_cleanup_loop
alert_cleanup_HistoryOnly(m) ==
    LET cutoff_time == m.clock - AlertRetentionPeriod
    IN  [m EXCEPT !.alert_history = Retained(@, cutoff_time)]

alert_cleanup(m) ==
    LET cutoff_time == m.clock - AlertRetentionPeriod
    IN  [m EXCEPT !.component_status =
                      [c \in DOMAIN @ |->
                          [@[c] EXCEPT !.alerts = Retained(@, cutoff_time)]],
                  !.alert_history = Retained(@, cutoff_time)]

\* StatusMonitor.cleanup
monitor_cleanup(m) == [m EXCEPT !.is_monitoring = FALSE]

MonitorCall(op, component, level) ==
    [op |-> op, target |-> component, from |-> level, result |-> TRUE]

MonitorFrame == UNCHANGED <<pms, sm, mc, trace, hsi, po, threads, bus, loops>>

\* StatusMonitor.initialize, as each MainController.initialize_system
\* call awaits it
MonitorInitialize ==
    /\ Len(mon.poll) < MaxLoops
    /\ mon' = monitor_initialize(mon)
    /\ last_call' = MonitorCall("monitor.initialize", "none", "none")
    /\ MonitorFrame

\* _status_update_loop passes its `while self._is_monitoring` test and
\* awaits _update_all_components
UpdateAllComponents(loop) ==
    /\ mon.is_monitoring
    /\ mon.poll[loop] = 0
    /\ mon.polls < MaxPolls
    /\ \E reading \in SensorReadings :
          /\ mon' = [update_all_components(mon, reading)
                        EXCEPT !.poll[loop] = 1, !.polls = @ + 1]
          /\ last_call' = MonitorCall("update_all_components", reading, "none")
    /\ MonitorFrame

\* the gather has returned and the loop awaits _analyze_system_health
AnalyzeSystemHealth(loop) ==
    /\ mon.poll[loop] = 1
    /\ mon' = [analyze_system_health(mon) EXCEPT !.poll[loop] = 0]
    /\ last_call' = MonitorCall("analyze_system_health", "none", "none")
    /\ MonitorFrame

\* the cleanup loop wakes up and sweeps
AlertCleanup ==
    /\ mon.is_monitoring
    /\ mon' = alert_cleanup(mon)
    /\ last_call' = MonitorCall("alert_cleanup", "none", "none")
    /\ MonitorFrame

\* _record_alert called by a client of the monitor (the Safety Monitor and
\* the Main Coordinator both call it)
RecordAlert(component, level) ==
    /\ Len(mon.alert_history) < MaxRecordedAlerts
    /\ mon' = record_alert(mon, component, level, "Reported")
    /\ last_call' = MonitorCall("record_alert", component, level)
    /\ MonitorFrame

\* a client registers its one plain-function callback
RegisterAlertCallback(level, callback) ==
    /\ \A l \in AlertLevel : \A i \in 1..Len(mon.alert_callbacks[l]) :
           mon.alert_callbacks[l][i] # callback
    /\ mon' = register_alert_callback(mon, level, callback)
    /\ last_call' = MonitorCall("register_alert_callback", callback, level)
    /\ MonitorFrame

MonitorCleanup ==
    /\ mon.is_monitoring
    /\ mon' = monitor_cleanup(mon)
    /\ last_call' = MonitorCall("monitor.cleanup", "none", "none")
    /\ MonitorFrame

\* dict.get(key, 0.0)
metric_get(metrics, key) == IF key \in DOMAIN metrics THEN metrics[key] ELSE 0

\* the values _update_safety_conditions and _update_mechanical_conditions
\* read from the component statuses of the status monitor
monitored_metrics(m) ==
    [temperature |-> metric_get(m.component_status["thermal"].metrics, "temperature"),
     battery_level |-> metric_get(m.component_status["power"].metrics, "battery_level"),
     power_level |-> metric_get(m.component_status["projection"].metrics, "power_level"),
     acceleration |-> metric_get(m.component_status["motion"].metrics, "acceleration"),
     vibration |-> metric_get(m.component_status["motion"].metrics, "vibration")]

\* one iteration of _safety_monitor_loop of a safety manager whose status
\* monitor tracks its components
MonitoredSafetyTick ==
    /\ sm.is_monitoring
    /\ mon.component_status # <<>>
    /\ Len(trace) < MaxTicks
    /\ \E w \in {safety_tick(World, monitored_metrics(mon))} :
          /\ sm' = w.sm
          /\ mc' = w.mc
          /\ trace' = Append(trace, w.sm.current_conditions)
    /\ UNCHANGED <<pms, last_call, hsi, po, mon, threads, bus, loops>>

\* time passes between two scheduling steps
AdvanceTime(seconds) ==
    /\ mon.advances < MaxAdvances
    /\ mon' = [mon EXCEPT !.clock = @ + seconds, !.advances = @ + 1]
    /\ last_call' = MonitorCall("advance_time", "none", "none")
    /\ MonitorFrame

(***************************************************************************)
(* Transports: src/src/hardware/interfaces/spi_interface.py and            *)
(* i2c_interface.py.  The register operations of both share one shape.     *)
(* Whether a transaction returns or the bus raises is an input; delays are *)
(* in milliseconds.  `access` describes the most recent register operation *)
(* (its arguments, the attempts it made and the delays it slept).          *)
(***************************************************************************)
\* the largest `retries` argument and the number of register operations made
\* on one transport
MaxRetries == 3
MaxAccesses == 2

Transports == {"spi", "i2c"}

\* self._retries
DefaultRetries == 3

\* __init__ of either interface
InitInterface ==
    [initialized |-> FALSE, error_count |-> 0, last_error |-> "none", transactions |-> 0]

InitBus ==
    [ifaces |-> [t \in Transports |-> InitInterface],
     access |-> [given |-> FALSE, retries |-> 0, outcomes |-> <<>>,
                 attempts |-> 0, sleeps |-> <<>>, raised |-> FALSE]]

backoff_delay_Constant(attempt) == 10

\* asyncio.sleep(0.01 * (attempt + 1)), `attempt` counted from 0
backoff_delay(attempt) == 10 * (attempt + 1)

\* `for attempt in range(retries)` of a register operation, from `attempt`
\* on: the first transaction that returns ends the loop, a transaction that
\* raises is followed by a sleep
RECURSIVE attempt_loop(_, _, _, _)
attempt_loop(outcomes, retries, attempt, sleeps) ==
    IF attempt >= retries
    THEN [success |-> FALSE, attempts |-> attempt, sleeps |-> sleeps]
    ELSE IF outcomes[attempt + 1]
         THEN [success |-> TRUE, attempts |-> attempt + 1, sleeps |-> sleeps]
         ELSE attempt_loop(outcomes, retries, attempt + 1,
                           Append(sleeps, backoff_delay(attempt)))

\* write_register / read_register.  Every exception inside the outer try
\* (not initialised, or no attempt returned) reaches the one except branch
\* that counts the error and raises HardwareError; a transaction that
\* returned is recorded in the history, which keeps at most 1000 entries.
register_access(iface, given, retries, outcomes) ==
    LET n == IF given THEN retries ELSE DefaultRetries
        r == IF iface.initialized
             THEN attempt_loop(outcomes, n, 0, <<>>)
             ELSE [success |-> FALSE, attempts |-> 0, sleeps |-> <<>>]
    IN  [iface |-> [iface EXCEPT
                      !.error_count = IF r.success THEN @ ELSE @ + 1,
                      !.last_error = IF r.success THEN @
                                     ELSE IF iface.initialized
                                          THEN "failed after retries"
                                          ELSE "interface not initialized",
                      !.transactions = IF r.success /\ @ < 1000 THEN @ + 1 ELSE @],
         access |-> [given |-> given, retries |-> n, outcomes |-> outcomes,
                     attempts |-> r.attempts, sleeps |-> r.sleeps,
                     raised |-> ~r.success]]

TransportFrame == UNCHANGED <<pms, sm, mc, trace, hsi, po, mon, threads, loops>>

\* SPIInterface.initialize / I2CInterface.initialize: the simulated device
\* always passes its test
TransportInitialize(t) ==
    /\ bus' = [bus EXCEPT !.ifaces[t].initialized = TRUE]
    /\ last_call' = [op |-> "transport.initialize", target |-> t,
                     from |-> "none", result |-> TRUE]
    /\ TransportFrame

\* SPIInterface.cleanup / I2CInterface.cleanup, no transaction being active
TransportCleanup(t) ==
    /\ bus' = [bus EXCEPT !.ifaces[t].initialized = FALSE]
    /\ last_call' = [op |-> "transport.cleanup", target |-> t,
                     from |-> "none", result |-> TRUE]
    /\ TransportFrame

\* the `retries` argument: None, or a number of attempts
RetryArguments ==
    {[given |-> FALSE, retries |-> 0]}
        \cup {[given |-> TRUE, retries |-> n] : n \in 0..MaxRetries}

\* which transactions of a call return: the bus raises in the first k - 1 and
\* returns from the k-th on (what it would do after a transaction that
\* returned is never observed, the loop having ended)
TransactionOutcomes ==
    {[i \in 1..Max(MaxRetries, DefaultRetries) |-> i >= k] :
        k \in 1..(Max(MaxRetries, DefaultRetries) + 1)}

\* one call of write_register or read_register on transport t
AccessRegister(t, op) ==
    /\ bus.ifaces[t].error_count + bus.ifaces[t].transactions < MaxAccesses
    /\ \E a \in RetryArguments, outcomes \in TransactionOutcomes :
          \E r \in {register_access(bus.ifaces[t], a.given, a.retries, outcomes)} :
             /\ bus' = [ifaces |-> [bus.ifaces EXCEPT ![t] = r.iface],
                        access |-> r.access]
             /\ last_call' = [op |-> op, target |-> t, from |-> "none",
                              result |-> ~r.access.raised]
    /\ TransportFrame

(***************************************************************************)
(* Specifications                                                          *)
(***************************************************************************)
\* a power system and a stand-alone safety manager, as constructed
Init ==
    /\ pms = InitPMS
    /\ last_call = NoCall
    /\ sm = InitSM
    /\ mc = InitMC
    /\ trace = <<>>
    /\ hsi = InitHSI
    /\ po = InitPO
    /\ mon = MonitorWithSafetyManager
    /\ threads = InitThreads
    /\ bus = InitBus
    /\ loops = <<>>

\* a MainController, whose constructor registers its safety handlers
InitMain ==
    /\ pms = InitPMS
    /\ last_call = NoCall
    /\ sm = [InitSM EXCEPT !.event_handlers = RegisteredHandlers]
    /\ mc = InitMC
    /\ trace = <<>>
    /\ hsi = InitHSI
    /\ po = InitPO
    /\ mon = MonitorWithSafetyManager
    /\ threads = InitThreads
    /\ bus = InitBus
    /\ loops = <<>>

PowerRequest == \E t \in PowerState : RequestPowerState(t)
Telemetry == \E l \in BatteryLevels, t \in Temperatures : SetTelemetry(l, t)

NextPower ==
    /\ \/ PowerRequest
       \/ OptimizePowerConsumption
       \/ ChargeSupercapacitor
       \/ MonitorPowerConsumption
       \/ Telemetry
    /\ UNCHANGED <<sm, mc, trace, hsi, po, mon, threads, bus, loops>>

SpecPower == Init /\ [][NextPower]_vars

\* a power system with a PowerOptimizer attached to it
OptimizerPowerRequest == PowerRequest /\ UNCHANGED <<sm, mc, trace, hsi, po, mon, threads, bus, loops>>

NextOptimizer ==
    \/ \E u \in UsagePatterns : RecordUsage(u)
    \/ ApplyOptimizations
    \/ OptimizerPowerRequest

SpecOptimizer == Init /\ [][NextOptimizer]_vars

\* a StatusMonitor with the Safety Monitor's alert handlers registered:
\* its two background loops and the passing of time
NextStatus ==
    \/ MonitorInitialize
    \/ \E i \in 1..Len(mon.poll) : UpdateAllComponents(i)
    \/ \E i \in 1..Len(mon.poll) : AnalyzeSystemHealth(i)
    \/ AlertCleanup
    \/ MonitorCleanup
    \/ \E d \in TimeSteps : AdvanceTime(d)

SpecStatus == Init /\ [][NextStatus]_vars

\* the same StatusMonitor with the clients that report alerts to it and
\* register callbacks with it
NextAlerts ==
    \/ MonitorInitialize
    \/ \E c \in ReportedComponents, l \in ReportedLevels : RecordAlert(c, l)
    \/ \E l \in ClientLevels, cb \in ClientCallbacks : RegisterAlertCallback(l, cb)
    \/ AlertCleanup
    \/ MonitorCleanup
    \/ \E d \in TimeSteps : AdvanceTime(d)

SpecAlerts == Init /\ [][NextAlerts]_vars

\* a safety manager whose clients register and unregister handlers
NextHandlers ==
    \/ SafetyInitialize
    \/ \E a \in HandledActions, h \in ClientHandlers : RegisterSafetyHandler(a, h)
    \/ \E a \in HandledActions, h \in ClientHandlers : UnregisterSafetyHandler(a, h)
    \/ HandlerTick
    \/ SafetyCleanup

SpecHandlers == Init /\ [][NextHandlers]_vars

NextSafety ==
    \/ SafetyInitialize
    \/ SafetyTick
    \/ SafetyCleanup

SpecSafety == Init /\ [][NextSafety]_vars

\* the safety manager reading the status monitor it was constructed with
NextMetrics ==
    \/ MonitorInitialize
    \/ \E i \in 1..Len(mon.poll) : UpdateAllComponents(i)
    \/ \E i \in 1..Len(mon.poll) : AnalyzeSystemHealth(i)
    \/ MonitorCleanup
    \/ SafetyInitialize
    \/ MonitoredSafetyTick
    \/ SafetyCleanup

SpecMetrics == Init /\ [][NextMetrics]_vars

\* the loop tasks of a MainController's safety manager, one per
\* initialize_system call, interleaved by the event loop
NextTicks ==
    \/ SafetyLoopCreated
    \/ \E i \in 1..Len(loops) : TickStarts(i)
    \/ \E i \in 1..Len(loops) : TickResumes(i)
    \/ SafetyCleanup

SpecTicks == InitMain /\ [][NextTicks]_vars

MainPowerRequest == PowerRequest /\ UNCHANGED <<sm, mc, trace, hsi, po, mon, threads, bus, loops>>

NextMain ==
    \/ InitializeSystem
    \/ StartHologramProjection
    \/ StopHologramProjection
    \/ ProcessInteraction
    \/ UpdateSystemStatus
    \/ Shutdown
    \/ MainSafetyTick
    \/ MainPowerRequest

SpecMain == InitMain /\ [][NextMain]_vars

\* a HolographicSystemInterface driven through its public operations, its
\* monitoring thread and the sensor values written to its power system,
\* next to a MainController that is initialised and shut down
SystemTelemetry == Telemetry /\ UNCHANGED <<sm, mc, trace, hsi, po, mon, threads, bus, loops>>

NextInterface ==
    \/ SystemInitialize
    \/ StartHologram
    \/ StopHologram
    \/ MonitoringLoop
    \/ SystemShutdown
    \/ SystemTelemetry
    \/ InitializeSystem
    \/ Shutdown

SpecInterface == InitMain /\ [][NextInterface]_vars

\* a HolographicSystemInterface used from its caller's thread while its
\* monitoring thread runs, with the sensor values written to its power system
NextThreads ==
    \/ SystemInitialize
    \/ SystemTelemetry
    \/ CallerStarts(start_hologram_statements)
    \/ CallerStarts(stop_hologram_statements)
    \/ MonitorIterates
    \/ \E t \in ThreadNames : ThreadStep(t)

SpecThreads == Init /\ [][NextThreads]_vars

\* the two transports, initialised, used and cleaned up by their drivers
NextTransport ==
    \/ \E t \in Transports : TransportInitialize(t)
    \/ \E t \in Transports : TransportCleanup(t)
    \/ \E t \in Transports : AccessRegister(t, "write_register")
    \/ \E t \in Transports : AccessRegister(t, "read_register")

SpecTransport == Init /\ [][NextTransport]_vars

(***************************************************************************)
(* Properties of the power controller (checked under SpecPower)            *)
(***************************************************************************)
IsRequestStep == last_call'.op = "request_power_state"

ProfileBatteryPower(p) ==
    IF p.profile_applied
    THEN Min(power_profiles[p.current_state].voltage, BatteryMaxVoltage)
            * Min(power_profiles[p.current_state].current, BatteryMaxCurrent)
    ELSE 37 * 300

C3_BurstFlagIffBurst ==
    /\ pms.in_burst_mode <=> pms.current_state = "burst"
    /\ pms.current_state # "burst" => SupercapCurrentPower(pms) = 0

C3_Witness ==
    /\ last_call.op = "request_power_state"
    /\ last_call.result
    /\ last_call.from = "burst"
    /\ pms.current_state # "burst"
    /\ ~pms.in_burst_mode

\* C19: after optimize_power_consumption() has run with battery_level below
\* 20 or temperature above 40, the power state is LowPower, whatever power
\* state the call was made in.
C19_OptimizeForcesLowPower ==
    [][(/\ last_call'.op = "optimize_power_consumption"
        /\ (pms.battery_level < 20 \/ pms.temperature > 40))
       => pms'.current_state = "low_power"]_vars

\* C20: request_power_state(Charging) issued in the initial Standby state
\* (no profile applied yet) succeeds and leaves current_state Charging.
C20_ChargingEnteredFromInitialStandby ==
    [][(/\ IsRequestStep
        /\ last_call'.target = "charging"
        /\ pms.current_state = "standby"
        /\ ~pms.profile_applied)
       => (last_call'.result /\ pms'.current_state = "charging")]_vars

\* C21: charge_supercapacitor() called with battery level above 50 leaves
\* the supercapacitor's available power strictly greater than before; called
\* with battery level at or below 50 it changes nothing.
C21_ChargeRaisesSupercapPower ==
    [][last_call'.op = "charge_supercapacitor" =>
        /\ pms.battery_level > 50 =>
              SupercapAvailablePower(pms') > SupercapAvailablePower(pms)
        /\ pms.battery_level <= 50 => pms' = pms]_vars

\* C22: in every reachable state, after any number of
\* PowerOptimizer.apply_optimizations calls included, every power state's
\* profile has min_power <= max_power and both are non-negative.
C22_ProfilesOrdered ==
    \A s \in PowerState :
        LET lo == profile_of(pms, s).min_power
            hi == profile_of(pms, s).max_power
        IN  /\ lo.num >= 0
            /\ hi.num >= 0
            /\ lo.num * hi.den <= hi.num * lo.den

\* the largest battery output allowed in a power state: 0.1 W in Standby,
\* 0.33 W in LowPower, 1.65 W in Active, the profile's max_power otherwise
AllowedBatteryPower(state) ==
    CASE state = "standby"   -> 1000
      [] state = "low_power" -> 3300
      [] state = "active"    -> 16500
      [] OTHER               -> power_profiles[state].max_power

\* C23: in every state of the power controller, the initial Standby
\* included, the battery output power that monitor_power_consumption reports
\* does not exceed the maximum allowed for the current power state.
C23_BatteryOutputWithinStateMaximum ==
    PowerSnapshot(pms).primary_power <= AllowedBatteryPower(pms.current_state)

(***************************************************************************)
(* Properties of the Safety Monitor (checked under SpecSafety)             *)
(***************************************************************************)
IsTickStep == Len(trace') = Len(trace) + 1

\* number of executions of a condition's action
ExecCount(s, c) ==
    Cardinality({i \in 1..Len(s.action_log) : s.action_log[i].condition = c})

\* number of recorded events of one kind for a condition
EventCount(s, c, kind) ==
    Cardinality({i \in 1..Len(s.safety_events) :
                    /\ s.safety_events[i].condition = c
                    /\ s.safety_events[i].kind = kind})

\* the values one condition took, tick by tick
ValueSeq(c) == [i \in 1..Len(trace) |-> trace[i][c]]

\* C4: on each tick a condition's action is executed once if its value went
\* from below critical_level to at or above it, and not at all otherwise.
C4_ActionOncePerCriticalEntry ==
    [][IsTickStep =>
        \A c \in SafetyCondition :
            ExecCount(sm', c) - ExecCount(sm, c) =
                IF /\ sm.current_conditions[c] < sm.thresholds[c].critical_level
                   /\ sm'.current_conditions[c] >= sm.thresholds[c].critical_level
                THEN 1 ELSE 0]_vars

\* the sequence [0, warning+1, critical+1, warning+1, recovery-1]
HysteresisSequence(c) ==
    <<0,
      sm.thresholds[c].warning_level + 1,
      sm.thresholds[c].critical_level + 1,
      sm.thresholds[c].warning_level + 1,
      sm.thresholds[c].recovery_level - 1>>

\* C5: after the values [0, warning+1, critical+1, warning+1, recovery-1]
\* there is exactly one Critical-entry event, exactly one recovery event and
\* exactly one execution of the action.
C5_HysteresisScenario ==
    \A c \in SafetyCondition :
        ValueSeq(c) = HysteresisSequence(c) =>
            /\ EventCount(sm, c, "critical") = 1
            /\ EventCount(sm, c, "recovery") = 1
            /\ ExecCount(sm, c) = 1

\* C6: every threshold the Safety Monitor holds has
\* recovery_level < warning_level < critical_level.
C6_ThresholdsOrdered ==
    \A c \in SafetyCondition :
        /\ sm.thresholds[c].recovery_level < sm.thresholds[c].warning_level
        /\ sm.thresholds[c].warning_level < sm.thresholds[c].critical_level

\* C7: a condition that was Critical on the previous tick (so is not Normal)
\* and whose value is now below the warning level and at or below
\* recovery_level records one recovery event and has no active-warning
\* record afterwards.
C7_RecoveryFromAnyNonNormal ==
    [][IsTickStep =>
        \A c \in SafetyCondition :
            (/\ sm.current_conditions[c] >= sm.thresholds[c].critical_level
             /\ sm'.current_conditions[c] < sm.thresholds[c].critical_level
             /\ sm'.current_conditions[c] < sm.thresholds[c].warning_level
             /\ sm'.current_conditions[c] <= sm.thresholds[c].recovery_level)
            => /\ EventCount(sm', c, "recovery") = EventCount(sm, c, "recovery") + 1
               /\ c \notin sm'.active_warnings]_vars

\* C8: a tick in the warning band records one warning event when the
\* condition was Normal (at or below recovery_level) or Critical on the
\* previous tick, and none when it was already in the warning band.
InWarningBand(s, c) ==
    /\ s.current_conditions[c] >= s.thresholds[c].warning_level
    /\ s.current_conditions[c] < s.thresholds[c].critical_level

C8_WarningEventOnEachEntry ==
    [][IsTickStep =>
        \A c \in SafetyCondition :
            InWarningBand(sm', c) =>
                LET recorded == EventCount(sm', c, "warning") - EventCount(sm, c, "warning")
                    previous == sm.current_conditions[c]
                IN  \* already in Warning
                    /\ InWarningBand(sm, c) => recorded = 0
                    \* entered from Critical
                    /\ previous >= sm.thresholds[c].critical_level => recorded = 1
                    \* entered from Normal
                    /\ previous <= sm.thresholds[c].recovery_level => recorded = 1]_vars

(***************************************************************************)
(* Properties of the coordinator (checked under SpecMain)                  *)
(***************************************************************************)
\* the step executed a Shutdown or EmergencyShutdown safety action
ExecutesShutdownAction ==
    \E i \in (Len(sm.action_log) + 1)..Len(sm'.action_log) :
        sm'.action_log[i].action \in {"shutdown", "emergency_shutdown"}

\* C9: when a Shutdown or EmergencyShutdown action has been executed the
\* power state is Standby.
C9_ShutdownForcesStandby ==
    [][ExecutesShutdownAction => pms'.current_state = "standby"]_vars

\* the step is a call of one of the named coordinator operations
IsCallOf(ops) == trace' = trace /\ last_call'.op \in ops

\* C10: once the coordinator state is Shutdown, no safety handler and no call
\* of start_hologram_projection, stop_hologram_projection,
\* process_interaction, update_system_status or shutdown changes it.
C10_ShutdownIsTerminal ==
    [][(/\ mc.state = "shutdown"
        /\ \/ IsTickStep
           \/ IsCallOf({"start_hologram_projection", "stop_hologram_projection",
                        "process_interaction", "update_system_status", "shutdown"}))
       => mc'.state = "shutdown"]_vars

(***************************************************************************)
(* Properties of the system interface (checked under SpecInterface)        *)
(***************************************************************************)
\* the step is a call of the named interface operation
IsSystemCall(op) == trace' = trace /\ last_call'.op = op

C14_FalseReturnLeavesStandbyOrOldState ==
    [][(IsSystemCall("system.start_hologram") /\ ~last_call'.result)
       => pms'.current_state \in {"standby", pms.current_state}]_vars

C17_MonitorStopsThenLowPower ==
    [][(/\ IsSystemCall("system.monitoring_loop")
        /\ hsi.is_projecting
        /\ hsi.projection_thread = "started"
        /\ \/ Max(pms.temperature, ProjectorTemperature) > 40
           \/ pms.battery_level < 15)
       => (~hsi'.is_projecting /\ pms'.current_state = "low_power")]_vars

(***************************************************************************)
(* Further properties of the coordinator (checked under SpecMain)          *)
(***************************************************************************)
\* the Temperature value is at or above its critical level
TemperatureCritical(s) ==
    s.current_conditions["temperature"] >= s.thresholds["temperature"].critical_level

\* the battery level is at or below the Power condition's critical level
PowerCritical(s) ==
    s.current_conditions["power"] <= s.thresholds["power"].critical_level

\* C12: start_hologram_projection is rejected by the safety verification
\* exactly when the Temperature condition is Critical or the battery is
\* critically low; it is not rejected when both are Normal or Warning.
C12_RejectedIffCritical ==
    [][(IsCallOf({"start_hologram_projection"}) /\ sm.is_monitoring)
       => (~last_call'.result <=> (TemperatureCritical(sm) \/ PowerCritical(sm)))]_vars

\* C13: a rejected start_hologram_projection leaves MainController.state as
\* it was before the call.
C13_RejectedStartKeepsState ==
    [][(IsCallOf({"start_hologram_projection"}) /\ ~last_call'.result)
       => mc'.state = mc.state]_vars

\* C18: on a tick where the Temperature value goes from Normal (below the
\* warning level) to at or above the critical level, the Temperature action
\* is executed exactly once, it is Shutdown, and a coordinator that was
\* Projecting is no longer Projecting.
C18_NormalToCriticalFiresOnce ==
    [][(/\ IsTickStep
        /\ sm.current_conditions["temperature"] < sm.thresholds["temperature"].warning_level
        /\ TemperatureCritical(sm'))
       => (/\ ExecCount(sm', "temperature") = ExecCount(sm, "temperature") + 1
           /\ sm'.action_log[Len(sm'.action_log)].action = "shutdown"
           /\ mc.state = "projecting" => mc'.state # "projecting")]_vars


(***************************************************************************)
(* Properties of the Status Aggregator (checked under SpecAlerts and       *)
(* SpecStatus)                                                             *)
(***************************************************************************)
\* C24: every record_alert for a tracked component appends the new alert to
\* that component's alert list and to the global alert history, and runs
\* every callback registered for the alert's level once for it, in
\* registration order, the Safety Monitor's warning and critical handlers
\* included.
C24_RecordAlertAppendsAndRunsCallbacks ==
    [][(/\ last_call'.op = "record_alert"
        /\ last_call'.target \in DOMAIN mon.component_status) =>
          LET component == last_call'.target
              level == last_call'.from
              alert == [component |-> component, level |-> level,
                        message |-> "Reported", timestamp |-> mon.clock]
              callbacks == mon.alert_callbacks[level]
          IN  /\ mon'.component_status[component].alerts =
                     Append(mon.component_status[component].alerts, alert)
              /\ mon'.alert_history = Append(mon.alert_history, alert)
              /\ mon'.callback_runs =
                     mon.callback_runs \o
                        [i \in 1..Len(callbacks) |->
                            [callback |-> callbacks[i], alert |-> alert]]]_vars

HealthMessages == {"Critical health", "Low health"}

\* number of health alerts of the given level a step appends to the alert
\* list of component c
HealthAlertsAdded(c, level) ==
    LET old == mon.component_status[c].alerts
        new == mon'.component_status[c].alerts
    IN  Cardinality({i \in (Len(old) + 1)..Len(new) :
                        new[i].level = level /\ new[i].message \in HealthMessages})

\* C25: every health analysis gives each component exactly one Critical
\* alert when its health is below 20, exactly one Warning alert when its
\* health is from 20 up to but not including 50, and no health alert when it
\* is 50 or more; earlier alerts do not suppress new ones.
C25_HealthToAlertMapping ==
    [][last_call'.op = "analyze_system_health" =>
          \A c \in DOMAIN mon.component_status :
              LET health == mon.component_status[c].health
              IN  /\ HealthAlertsAdded(c, "critical") = (IF health < 20 THEN 1 ELSE 0)
                  /\ HealthAlertsAdded(c, "warning") =
                         (IF health >= 20 /\ health < 50 THEN 1 ELSE 0)
                  /\ HealthAlertsAdded(c, "info") = 0
                  /\ HealthAlertsAdded(c, "error") = 0]_vars

\* two analyses have each given the Power component (health 0) a Critical
\* alert, and the Interface component (health 100) has none
C25_Witness ==
    /\ last_call.op = "analyze_system_health"
    /\ "power" \in DOMAIN mon.component_status
    /\ Len(mon.component_status["power"].alerts) = 2
    /\ \A i \in 1..2 :
           /\ mon.component_status["power"].alerts[i].level = "critical"
           /\ mon.component_status["power"].alerts[i].message = "Critical health"
    /\ mon.component_status["interface"].health = 100
    /\ mon.component_status["interface"].alerts = <<>>

\* C26: once update_all_components has run with a full battery, the Power
\* component has health of at least 50 and status text 'operational', the
\* alert history holds no health alert for Power, and the components without
\* a specialised health rule have health 100.
C26_PowerHealthyOnFullBattery ==
    (/\ pms.battery_level = 100
     /\ "power" \in DOMAIN mon.component_status
     /\ mon.component_status["power"].status # "initializing") =>
        /\ mon.component_status["power"].health >= 50
        /\ mon.component_status["power"].status = "operational"
        /\ \A i \in 1..Len(mon.alert_history) :
               mon.alert_history[i].component = "power" =>
                   mon.alert_history[i].message \notin HealthMessages
        /\ \A c \in {"projection", "motion", "interface", "safety"} :
               mon.component_status[c].health = 100

\* number of stale-status alerts in a list of alerts
StaleAlerts(alerts) ==
    Cardinality({i \in 1..Len(alerts) : alerts[i].message = "Stale status"})

\* C27: a health analysis that finds a component stale (last_update more
\* than 3 poll intervals in the past) adds one stale-status Error alert when
\* no stale-status alert was recorded for it since that last_update, and adds
\* none when one was.
C27_OneStaleAlertPerStaleness ==
    [][last_call'.op = "analyze_system_health" =>
          \A c \in DOMAIN mon.component_status :
              LET status == mon.component_status[c]
                  reported ==
                      \E i \in 1..Len(status.alerts) :
                          /\ status.alerts[i].message = "Stale status"
                          /\ status.alerts[i].timestamp - status.last_update
                                 > StatusUpdateInterval * 3
              IN  mon.clock - status.last_update > StatusUpdateInterval * 3 =>
                      StaleAlerts(mon'.component_status[c].alerts)
                          - StaleAlerts(status.alerts)
                        = (IF reported THEN 0 ELSE 1)]_vars

\* the alerts of a list that a sweep at the current time must keep
YoungAlerts(alerts) ==
    LET Young(alert) == mon.clock - alert.timestamp < AlertRetentionPeriod
    IN  SelectSeq(alerts, Young)

NoneOlderThanRetention(alerts) ==
    \A i \in 1..Len(alerts) :
        mon.clock - alerts[i].timestamp <= AlertRetentionPeriod

\* C28: after each retention sweep neither a component's alert list nor the
\* global alert history holds an alert older than the 1-hour retention
\* window, and the alerts younger than the window that a list held before the
\* sweep are all still in it, in order; status updates between sweeps do not
\* change this.
C28_SweepDropsOldKeepsYoung ==
    [][last_call'.op = "alert_cleanup" =>
          /\ mon'.clock = mon.clock
          /\ NoneOlderThanRetention(mon'.alert_history)
          /\ YoungAlerts(mon'.alert_history) = YoungAlerts(mon.alert_history)
          /\ DOMAIN mon'.component_status = DOMAIN mon.component_status
          /\ \A c \in DOMAIN mon.component_status :
                 /\ NoneOlderThanRetention(mon'.component_status[c].alerts)
                 /\ YoungAlerts(mon'.component_status[c].alerts)
                        = YoungAlerts(mon.component_status[c].alerts)]_vars

\* a sweep has run after two completed polls of one loop, between them a
\* status update that replaced the ComponentStatus objects: of the two
\* Critical alerts of the Power component the old one is gone and the young
\* one is kept, in the component's list and in the history
C28_Witness ==
    /\ last_call.op = "alert_cleanup"
    /\ mon.poll = <<0>>
    /\ mon.polls = 2
    /\ mon.clock >= AlertRetentionPeriod
    /\ Len(mon.component_status["power"].alerts) = 1
    /\ mon.component_status["power"].alerts[1].timestamp > 0
    /\ \E i \in 1..Len(mon.alert_history) :
           mon.alert_history[i] = mon.component_status["power"].alerts[1]
    /\ \A i \in 1..Len(mon.alert_history) : mon.alert_history[i].timestamp > 0

(***************************************************************************)
(* Properties of handler dispatch (checked under SpecHandlers)             *)
(***************************************************************************)
\* C29: every execution of a safety action calls each handler registered for
\* that action once, in registration order, whether or not one of them
\* raises, and then reaches the action's built-in procedure; the monitor
\* loop is still running after the tick.
C29_AllHandlersCalledDespiteRaise ==
    [][IsTickStep =>
          /\ sm'.is_monitoring
          /\ \A i \in (Len(sm.action_log) + 1)..Len(sm'.action_log) :
                 /\ sm'.action_log[i].handlers
                        = sm.event_handlers[sm'.action_log[i].action]
                 /\ sm'.action_log[i].built_in
                        = (sm'.action_log[i].action # "notify")]_vars

\* a THROTTLE action was executed with a raising handler registered before
\* a returning one: both were called, the built-in procedure was reached,
\* and the monitor is still running
C29_Witness ==
    /\ sm.is_monitoring
    /\ \E i \in 1..Len(sm.action_log) :
           /\ sm.action_log[i].action = "throttle"
           /\ sm.action_log[i].handlers = <<"raising_handler", "returning_handler">>
           /\ sm.action_log[i].built_in

(***************************************************************************)
(* Interaction gating of the coordinator (checked under SpecMain)          *)
(***************************************************************************)
\* C30: process_interaction starts the processing of an interaction only
\* when the coordinator state is Interactive or LowPower; called in any
\* other state it returns an error result and runs no handler.
C30_InteractionOnlyWhenInteractive ==
    [][IsCallOf({"process_interaction"}) =>
          /\ last_call'.target = "handler" =>
                 mc.state \in {"interactive", "low_power"}
          /\ mc.state \notin {"interactive", "low_power"} =>
                 /\ ~last_call'.result
                 /\ last_call'.target = "none"]_vars

\* a process_interaction call on an initialised coordinator was rejected
\* with an error result and no handler
C30_Witness ==
    /\ last_call.op = "process_interaction"
    /\ ~last_call.result
    /\ last_call.target = "none"
    /\ sm.is_monitoring
    /\ mc.state = "error"

MidTransition(t) ==
    /\ threads[t].agenda # <<>>
    /\ Head(threads[t].agenda).kind = "request_power_state"
    /\ threads[t].rpc = 2

\* the power system shows the requested state with a battery output or a
\* burst-mode flag that is not the one of that state's profile
Torn(p, requested_state) ==
    /\ p.current_state = requested_state
    /\ \/ p.bat_voltage # apply_power_profile(p, requested_state).bat_voltage
       \/ p.bat_current # apply_power_profile(p, requested_state).bat_current
       \/ p.in_burst_mode # apply_power_profile(p, requested_state).in_burst_mode

\* the step is a get_system_status of the monitoring thread
ReadsSystemStatus ==
    /\ threads["monitor"].agenda # <<>>
    /\ Head(threads["monitor"].agenda).kind = "get_system_status"
    /\ threads'["monitor"] # threads["monitor"]

\* C32: while request_power_state runs in one thread, the monitoring
\* thread's get_system_status never observes the new current_state together
\* with the old battery output or burst-mode flag: what it reads is the
\* state before the transition or the state after it.
C32_ReaderSeesNoIntermediateState ==
    [][ReadsSystemStatus =>
          \A t \in ThreadNames :
              MidTransition(t) => ~Torn(pms, Head(threads[t].agenda).target)]_vars

\* C38: when the monitoring thread and a caller thread issue
\* request_power_state concurrently, every change of current_state is an
\* edge of the adjacency table.
C38_EveryChangeIsAnEdge ==
    [][pms'.current_state # pms.current_state =>
          pms'.current_state \in valid_transitions[pms.current_state]]_vars

(***************************************************************************)
(* Recoverability of the power controller (checked under SpecPower)        *)
(***************************************************************************)
\* the power systems one successful request_power_state away from p
SuccessfulRequests(p) ==
    {request_power_state(p, t).p : t \in {u \in PowerState : request_power_state(p, u).ok}}

RECURSIVE ReachableBy(_, _)
\* the power systems reachable from those of ps by at most n successful requests
ReachableBy(ps, n) ==
    IF n = 0 THEN ps
    ELSE ReachableBy(ps \cup UNION {SuccessfulRequests(p) : p \in ps}, n - 1)

\* C37: from every power state reachable by successful request_power_state
\* calls, Active can be reached again by some sequence of adjacent requests
\* (a sequence never needs more requests than there are power states); the
\* power-availability check never locks the controller in Standby or
\* LowPower.
C37_ActiveReachableAgain ==
    \E p \in ReachableBy({pms}, Cardinality(PowerState)) : p.current_state = "active"

(***************************************************************************)
(* The Power condition of the Safety Monitor (checked under SpecSafety)    *)
(***************************************************************************)
\* C39: with the default thresholds, a tick in which the battery level is
\* above the Power warning level neither puts the Power condition in
\* Critical nor executes its Shutdown action; the action is executed only
\* when the battery level is at or below its critical level of 5%.
C39_PowerShutdownOnlyWhenBatteryCritical ==
    [][IsTickStep =>
          LET battery_level == sm'.current_conditions["power"]
              executed == ExecCount(sm', "power") - ExecCount(sm, "power")
              entered == EventCount(sm', "power", "critical")
                             - EventCount(sm, "power", "critical")
          IN  /\ battery_level > sm.thresholds["power"].warning_level =>
                     (executed = 0 /\ entered = 0)
              /\ executed > 0 =>
                     battery_level <= sm.thresholds["power"].critical_level]_vars

(***************************************************************************)
(* Properties of the transports (checked under SpecTransport)              *)
(***************************************************************************)
IsRegisterAccess == last_call'.op \in {"write_register", "read_register"}

\* C36: a register read or write on the SPI or I2C transport makes at most
\* `retries` attempts (3 when none is given), stops at the first attempt that
\* succeeds, waits 10 ms times the attempt number between two attempts, and
\* raises HardwareError exactly when the interface is not initialised or every
\* attempt failed, the error count growing by one when it raises and not at
\* all otherwise.
C36_BoundedRetriesLinearBackoff ==
    [][IsRegisterAccess =>
         LET a == bus'.access
             before == bus.ifaces[last_call'.target]
             after == bus'.ifaces[last_call'.target]
         IN  /\ ~a.given => a.retries = 3
             /\ a.attempts <= a.retries
             /\ \A i \in 1..(a.attempts - 1) :
                   ~a.outcomes[i] /\ a.sleeps[i] = 10 * i
             /\ ~a.raised => a.attempts >= 1 /\ a.outcomes[a.attempts]
             /\ a.raised <=> \/ ~before.initialized
                             \/ \A i \in 1..a.retries : ~a.outcomes[i]
             /\ ~before.initialized => a.attempts = 0
             /\ after.error_count =
                   before.error_count + (IF a.raised THEN 1 ELSE 0)
             /\ last_call'.result = ~a.raised]_vars

C36_Witness ==
    /\ last_call.op = "read_register"
    /\ last_call.target = "i2c"
    /\ bus.access.given
    /\ bus.access.attempts = 3
    /\ bus.access.sleeps = <<10, 20>>
    /\ ~bus.access.raised
    /\ bus.ifaces["i2c"].error_count = 1

\* C35: after shutdown() every polling loop exits because its running flag
\* has been cleared, also when one of the earlier cleanup steps raised: a
\* shutdown call leaves the Safety Monitor's running flag cleared.
C35_ShutdownClearsEveryLoopFlag ==
    [][IsCallOf({"shutdown"}) => ~sm'.is_monitoring]_vars

\* C34: an exception raised inside one iteration of a polling loop does not
\* end that loop.  For the system monitoring loop, whose test is
\* `self.state not in [ERROR, SHUTDOWN]`: an iteration that started with the
\* test passed and whose update_system_status call met an exception leaves
\* the test passing, so the loop goes on iterating.
C34_ExceptionDoesNotEndLoop ==
    [][(IsCallOf({"update_system_status"}) /\ mc.state \notin {"error", "shutdown"})
          => mc'.state \notin {"error", "shutdown"}]_vars

(***************************************************************************)
(* Properties of the metrics path (checked under SpecMetrics)              *)
(***************************************************************************)
\* C40: when the latest poll of the Status Aggregator collected a temperature
\* at or above the Temperature critical level, the next Safety Monitor tick
\* evaluates the Temperature condition with that value and records a
\* Critical event for it.
C40_TickReadsWhatThePollCollected ==
    [][(/\ IsTickStep
        /\ last_call.op = "update_all_components"
        /\ sensed_temperature(last_call.target)
               >= DefaultThresholds["temperature"].critical_level)
          => /\ trace'[Len(trace')]["temperature"] = sensed_temperature(last_call.target)
             /\ EventCount(sm', "temperature", "critical")
                   > EventCount(sm, "temperature", "critical")]_vars

====
